---- MODULE Spec2Model ----
(***************************************************************************)
(* NexFlow: flow store (NexFlowManager), run orchestrator (runFlowNow),    *)
(* step interpreter (executeSteps) and the three scheduling entry points   *)
(* (FlowScheduler, NexFlowEngine, the worker's scheduled handler).         *)
(*                                                                         *)
(* Time: one unit of `now` is 15 seconds of wall-clock time, the polling    *)
(* interval of both scheduler loops.                                       *)
(***************************************************************************)
EXTENDS Integers, Sequences, FiniteSets, TLC

VARIABLES
  now,        \* wall clock (Date.now()), in 15 s units
  store,      \* the durable object's persisted "state" value: [flows, history]
  runs,       \* in-flight runFlowNow invocations, keyed by run number
  nextRun,    \* source of fresh run ids (crypto.randomUUID)
  sched,      \* the FlowScheduler singleton: running flag, timer, tick invocations
  engine,     \* NexFlowEngine workflow instances and their pending record writes
  cronLog,    \* observation: every run started with trigger=cron by a scheduling entry point
  persistLog, \* observation: records persisted since their flow was last deleted, in write order
  lastWrite,  \* observation: what the last completed store write was
  calls,      \* number of API requests made so far
  budget,     \* what the environment is allowed: [calls, runs], fixed by the initial state
  call        \* one invocation of a library function made directly by a caller: its arguments and its state or result

vars == <<now, store, runs, nextRun, sched, engine, cronLog, persistLog, lastWrite, calls, budget, call>>

\* what no handler of the worker, the manager or the workflow writes
fixed == <<budget, call>>

----------------------------------------------------------------------------
(* Bounds of the model *)

MaxTime == 2        \* the clock stops advancing here
MaxCalls == 3       \* API requests (create, delete, toggle, run now)
MaxRuns == 3        \* run ids handed out
MaxInFlight == 2    \* runFlowNow invocations suspended at the same time
MaxTicks == 2       \* FlowScheduler timer firings
MaxCronEvents == 1  \* platform cron events (each starts a workflow instance and a scheduled() call)
MaxCapRuns == 52    \* run ids handed out where the history cap is exercised
MaxSteps == 3       \* steps of a flow handed to runFlowNow directly
MaxInstant == 16    \* the latest instant handed to isDue directly
MaxStoreCalls == 4  \* requests made where the manager's API is exercised alone
MaxTokens == 3      \* pieces of a template handed to interpolateTemplate directly
MaxNameLen == 4     \* characters of a name handed to generateFlowId directly

(* Program constants, in 15 s units *)

UNIT_MS == 15000
SCHEDULER_INTERVAL == 1   \* SCHEDULER_INTERVAL_MS = 15_000
MINUTE == 4               \* 60_000 ms: the reference offset of isDue and the cron granularity
LOOP_DURATION == 4        \* NexFlowEngine LOOP_DURATION = 55_000: elapsed * 15 s < 55 s iff elapsed < 4
INTERVAL == 1             \* NexFlowEngine INTERVAL = 15_000
HISTORY_LIMIT == 50       \* slice(0, 50) in persistRun

NoTime == -1              \* lastRunAt: undefined

NoCall == [pc |-> "idle"] \* no direct invocation was made

----------------------------------------------------------------------------
(* Maps with a varying key set (JavaScript objects used as dictionaries) *)

EmptyMap == [k \in {} |-> k]

Put(m, k, v) == [x \in (DOMAIN m) \cup {k} |-> IF x = k THEN v ELSE m[x]]

Remove(m, k) == [x \in (DOMAIN m) \ {k} |-> m[x]]

Has(m, k) == k \in DOMAIN m

Min(a, b) == IF a <= b THEN a ELSE b

Take(s, n) == SubSeq(s, 1, Min(n, Len(s)))

Range(s) == {s[i] : i \in DOMAIN s}

----------------------------------------------------------------------------
(* generateFlowId: names and ids are sequences of one-character strings *)

Lower(c) == CASE c = "A" -> "a" [] c = "B" -> "b" [] OTHER -> c

IsAlnum(c) == c \in {"a", "b", "0", "1"}

ToLowerCase(s) == [i \in DOMAIN s |-> Lower(s[i])]

RECURSIVE SkipNonAlnum(_)
SkipNonAlnum(s) ==
  IF s = <<>> THEN <<>>
  ELSE IF IsAlnum(Head(s)) THEN s ELSE SkipNonAlnum(Tail(s))

\* .replace(/[^a-z0-9]+/g, "-")
RECURSIVE ReplaceNonAlnumRuns(_)
ReplaceNonAlnumRuns(s) ==
  IF s = <<>> THEN <<>>
  ELSE IF IsAlnum(Head(s)) THEN <<Head(s)>> \o ReplaceNonAlnumRuns(Tail(s))
  ELSE <<"-">> \o ReplaceNonAlnumRuns(SkipNonAlnum(Tail(s)))

RECURSIVE DropLeadingDashes(_)
DropLeadingDashes(s) ==
  IF s # <<>> /\ Head(s) = "-" THEN DropLeadingDashes(Tail(s)) ELSE s

RECURSIVE DropTrailingDashes(_)
DropTrailingDashes(s) ==
  IF s # <<>> /\ s[Len(s)] = "-" THEN DropTrailingDashes(SubSeq(s, 1, Len(s) - 1)) ELSE s

\* .replace(/^-+|-+$/g, "")
TrimDashes(s) == DropTrailingDashes(DropLeadingDashes(s))

\* .replace(/-{2,}/g, "-")
RECURSIVE CollapseDashes(_)
CollapseDashes(s) ==
  IF s = <<>> THEN <<>>
  ELSE IF Head(s) = "-" THEN <<"-">> \o CollapseDashes(DropLeadingDashes(Tail(s)))
  ELSE <<Head(s)>> \o CollapseDashes(Tail(s))

generateFlowId_untrimmed(name) ==
  CollapseDashes(ReplaceNonAlnumRuns(ToLowerCase(name)))

generateFlowId(name) ==
  CollapseDashes(TrimDashes(ReplaceNonAlnumRuns(ToLowerCase(name))))

----------------------------------------------------------------------------
(* Cron evaluator.  A schedule is a 5-field cron string; the parser is the *)
(* cron-parser library, modelled for the expressions drawn below.          *)

EveryMinute == "* * * * *"
EveryTwoMinutes == "*/2 * * * *"
BadCron == "not a cron"

Schedules == {EveryMinute, EveryTwoMinutes, BadCron}

CronParses(schedule) == schedule \in {EveryMinute, EveryTwoMinutes}

CronPeriod(schedule) == IF schedule = EveryTwoMinutes THEN 2 * MINUTE ELSE MINUTE

\* expression.next(): the first occurrence strictly after currentDate
CronNext(schedule, ref) ==
  LET p == CronPeriod(schedule)
      q == IF ref >= 0 THEN ref \div p ELSE -(((-ref) + p - 1) \div p)
  IN (q + 1) * p

isDue_sinceEpoch(schedule, lastRunAt, at) ==
  IF ~CronParses(schedule) THEN FALSE
  ELSE LET refDate == IF lastRunAt # NoTime THEN lastRunAt ELSE 0
       IN CronNext(schedule, refDate) <= at

isDue_beforeNow(schedule, lastRunAt, at) ==
  IF ~CronParses(schedule) THEN FALSE
  ELSE LET refDate == IF lastRunAt # NoTime THEN lastRunAt ELSE at - MINUTE
       IN CronNext(schedule, refDate) < at

isDue(schedule, lastRunAt, at) ==
  IF ~CronParses(schedule) THEN FALSE
  ELSE LET refDate == IF lastRunAt # NoTime THEN lastRunAt ELSE at - MINUTE
       IN CronNext(schedule, refDate) <= at

----------------------------------------------------------------------------
(* JavaScript values seen by the step interpreter.  Strings are sequences  *)
(* of character codes so that they can be ordered.                         *)

Num(n) == [t |-> "num", n |-> n]
Str(s) == [t |-> "str", s |-> s]
Undef == [t |-> "undef"]
Bool(b) == [t |-> "bool", b |-> b]
Null == [t |-> "null"]

IsDigit(c) == c >= 48 /\ c <= 57

RECURSIVE DigitsValue(_)
DigitsValue(s) ==
  IF s = <<>> THEN 0 ELSE 10 * DigitsValue(SubSeq(s, 1, Len(s) - 1)) + (s[Len(s)] - 48)

RECURSIVE DigitsOf(_)
DigitsOf(n) == IF n < 10 THEN <<48 + n>> ELSE DigitsOf(n \div 10) \o <<48 + (n % 10)>>

\* Number(v): [nan |-> TRUE] or [nan |-> FALSE, n |-> value]
NaN == [nan |-> TRUE, n |-> 0]

Number(v) ==
  CASE v.t = "num" -> [nan |-> FALSE, n |-> v.n]
    [] v.t = "str" -> IF \A i \in DOMAIN v.s : IsDigit(v.s[i])
                      THEN [nan |-> FALSE, n |-> DigitsValue(v.s)]
                      ELSE NaN
    [] OTHER -> NaN

StrUndefined == <<117, 110, 100, 101, 102, 105, 110, 101, 100>>
StrObject == <<91, 111, 98, 106, 101, 99, 116, 32, 79, 98, 106, 101, 99, 116, 93>>
StrNull == <<110, 117, 108, 108>>
StrTrue == <<116, 114, 117, 101>>
StrFalse == <<102, 97, 108, 115, 101>>

String(v) ==
  CASE v.t = "num" -> DigitsOf(v.n)
    [] v.t = "str" -> v.s
    [] v.t = "undef" -> StrUndefined
    [] v.t = "null" -> StrNull
    [] v.t = "bool" -> IF v.b THEN StrTrue ELSE StrFalse
    [] OTHER -> StrObject

RECURSIVE StrLess(_, _)
StrLess(a, b) ==
  IF b = <<>> THEN FALSE
  ELSE IF a = <<>> THEN TRUE
  ELSE IF Head(a) # Head(b) THEN Head(a) < Head(b)
  ELSE StrLess(Tail(a), Tail(b))

\* value == target, where target is a string or a number
LooseEq(value, target) ==
  CASE value.t = "undef" -> FALSE
    [] value.t = "num" /\ target.t = "num" -> value.n = target.n
    [] value.t = "str" /\ target.t = "str" -> value.s = target.s
    [] value.t \in {"num", "str"} ->
         LET a == Number(value) b == Number(target)
         IN ~a.nan /\ ~b.nan /\ a.n = b.n
    [] OTHER -> String(value) = String(target)

\* getDeepValue(results, path); a path is a sequence of keys
\* current[part] for a value current that is neither null nor undefined; the
\* headers of a fetch output are an object without properties
Prop(current, part) ==
  IF current.t # "obj" \/ part \notin (DOMAIN current) \ {"t", "keys"} THEN Undef
  ELSE IF part = "headers" THEN [t |-> "obj", keys |-> <<>>]
  ELSE current[part]

\* the for loop of getDeepValue
RECURSIVE Walk(_, _)
Walk(current, parts) ==
  IF parts = <<>> THEN current
  ELSE IF current.t \in {"undef", "null"} THEN Undef
  ELSE Walk(Prop(current, Head(parts)), Tail(parts))

getDeepValue(results, path) ==
  IF path = <<>> THEN Undef
  ELSE IF ~Has(results, path[1]) THEN Undef
  ELSE Walk(results[path[1]], Tail(path))

\* a <= b on strings
StrLeq(a, b) == a = b \/ StrLess(a, b)

\* the switch of evaluateRule on the operands it computed
Compare(operator, value, target, numValue, numTarget, isNumeric) ==
  CASE operator = "=" -> LooseEq(value, target)
    [] operator = "!=" -> ~LooseEq(value, target)
    [] operator = "<" -> IF isNumeric THEN numValue < numTarget ELSE StrLess(String(value), String(target))
    [] operator = ">" -> IF isNumeric THEN numValue > numTarget ELSE StrLess(String(target), String(value))
    [] operator = "<=" -> IF isNumeric THEN numValue <= numTarget ELSE StrLeq(String(value), String(target))
    [] operator = ">=" -> IF isNumeric THEN numValue >= numTarget ELSE StrLeq(String(target), String(value))

\* numValue, numTarget and isNumeric of evaluateRule
Operands(operator, value, target, numValue, numTarget) ==
  Compare(operator, value, target, numValue.n, numTarget.n, ~numValue.nan /\ ~numTarget.nan)

evaluateRule(rule, context) ==
  Operands(rule.operator, getDeepValue(context.results, rule.input), rule.value,
           Number(getDeepValue(context.results, rule.input)), Number(rule.value))

\* parseDuration: milliseconds, or -1 when the string does not match <integer><unit>
parseDuration(duration) ==
  IF duration.value < 0 THEN -1
  ELSE CASE duration.unit = "ms" -> duration.value
         [] duration.unit = "s" -> duration.value * 1000
         [] duration.unit = "m" -> duration.value * 60000
         [] duration.unit = "h" -> duration.value * 3600000
         [] OTHER -> -1

\* clock units a timer of ms milliseconds takes at least
TimerUnits(ms) == (ms + UNIT_MS - 1) \div UNIT_MS

----------------------------------------------------------------------------
(* Template interpolation.  A template is a sequence of parts: literal     *)
(* text [lit |-> s] or a placeholder [expr |-> path].                      *)

\* the replace callback returning "" for a value that is undefined or null
RenderPart_blank(part, results) ==
  IF "lit" \in DOMAIN part THEN part
  ELSE LET value == getDeepValue(results, part.expr)
       IN IF value.t \in {"undef", "null"} THEN [lit |-> <<>>]
          ELSE IF value.t = "obj" THEN [json |-> value]
          ELSE [lit |-> String(value)]

RenderPart(part, results) ==
  IF "lit" \in DOMAIN part THEN part
  ELSE LET value == getDeepValue(results, part.expr)
       IN IF value.t \in {"undef", "null"} THEN [missing |-> part.expr]
          ELSE IF value.t = "obj" THEN [json |-> value]
          ELSE [lit |-> String(value)]

interpolateTemplate(template, results) ==
  [i \in DOMAIN template |-> RenderPart(template[i], results)]

\* JSON.parse of an interpolated raw payload: a "[missing ...]" rendering is not JSON
JsonParses(rendered) == \A i \in DOMAIN rendered : "missing" \notin DOMAIN rendered[i]

(* The same function on the text of a template: a sequence of character    *)
(* codes in which PLACEHOLDER_REGEX finds the placeholders.                 *)

\* how the keys of the values drawn below are spelled
Spelling ==
  [p |-> <<112>>, q |-> <<113>>, k |-> <<107>>,
   status |-> <<115, 116, 97, 116, 117, 115>>,
   headers |-> <<104, 101, 97, 100, 101, 114, 115>>,
   body |-> <<98, 111, 100, 121>>]

\* the key a path segment spells; "" is a key that no value has
KeyOf(chars) ==
  IF \E key \in DOMAIN Spelling : Spelling[key] = chars
  THEN CHOOSE key \in DOMAIN Spelling : Spelling[key] = chars
  ELSE ""

RECURSIVE TrimStart(_)
TrimStart(text) == IF text # <<>> /\ Head(text) = 32 THEN TrimStart(Tail(text)) ELSE text

RECURSIVE TrimEnd(_)
TrimEnd(text) ==
  IF text # <<>> /\ text[Len(text)] = 32 THEN TrimEnd(SubSeq(text, 1, Len(text) - 1)) ELSE text

\* expr.trim()
Trim(text) == TrimEnd(TrimStart(text))

\* path.split(".")
RECURSIVE SplitDots(_)
SplitDots(text) ==
  IF \A i \in DOMAIN text : text[i] # 46 THEN <<text>>
  ELSE LET dot == CHOOSE i \in DOMAIN text : text[i] = 46 /\ \A j \in 1..(i - 1) : text[j] # 46
       IN <<SubSeq(text, 1, dot - 1)>> \o SplitDots(SubSeq(text, dot + 1, Len(text)))

\* the keys of a trimmed path expression; if (!path) return undefined
PathOf(expr) ==
  IF expr = <<>> THEN <<>>
  ELSE LET parts == SplitDots(expr) IN [i \in DOMAIN parts |-> KeyOf(parts[i])]

\* /\$\{([^}]+)\}/ matched at the head of text: the index of its "}", or 0
ClosingBrace(text) ==
  IF /\ Len(text) >= 4
     /\ text[1] = 36 /\ text[2] = 123 /\ text[3] # 125
     /\ \E i \in 4..Len(text) : text[i] = 125
  THEN CHOOSE i \in 4..Len(text) : text[i] = 125 /\ \A j \in 4..(i - 1) : text[j] # 125
  ELSE 0

\* template.replace(PLACEHOLDER_REGEX, ...): the matches, left to right, and the text between them
RECURSIVE ParseTemplate(_)
ParseTemplate(text) ==
  IF text = <<>> THEN <<>>
  ELSE LET close == ClosingBrace(text)
       IN IF close = 0 THEN <<[lit |-> <<Head(text)>>]>> \o ParseTemplate(Tail(text))
          ELSE LET expr == Trim(SubSeq(text, 3, close - 1))
               IN <<[expr |-> PathOf(expr), text |-> expr]>>
                    \o ParseTemplate(SubSeq(text, close + 1, Len(text)))

\* the own properties of an object, in insertion order
KeysOf(value) == IF "keys" \in DOMAIN value THEN value.keys ELSE <<"status", "headers", "body">>

RECURSIVE JsonStringify(_)
RECURSIVE JsonProperties(_, _)

JsonProperties(value, keys) ==
  IF keys = <<>> THEN <<>>
  ELSE <<34>> \o Spelling[Head(keys)] \o <<34, 58>> \o JsonStringify(Prop(value, Head(keys)))
         \o (IF Len(keys) > 1 THEN <<44>> ELSE <<>>) \o JsonProperties(value, Tail(keys))

\* JSON.stringify(value)
JsonStringify(value) ==
  CASE value.t = "num" -> DigitsOf(value.n)
    [] value.t = "str" -> <<34>> \o value.s \o <<34>>
    [] value.t = "obj" -> <<123>> \o JsonProperties(value, KeysOf(value)) \o <<125>>
    [] OTHER -> String(value)

StrMissing == <<91, 109, 105, 115, 115, 105, 110, 103, 32>>

\* the text the replace callback returns for a placeholder, or the text between placeholders
TextOf(rendered, part) ==
  IF "lit" \in DOMAIN rendered THEN rendered.lit
  ELSE IF "missing" \in DOMAIN rendered THEN StrMissing \o part.text \o <<93>>
  ELSE JsonStringify(rendered.json)

RECURSIVE Concat(_)
Concat(texts) == IF texts = <<>> THEN <<>> ELSE Head(texts) \o Concat(Tail(texts))

\* interpolateTemplate(template, results) for a template given as text
interpolateTemplateText(template, results) ==
  LET parts == ParseTemplate(template)
      rendered == interpolateTemplate(parts, results)
  IN Concat([i \in DOMAIN parts |-> TextOf(rendered[i], parts[i])])

----------------------------------------------------------------------------
(* Step interpreter: executeSteps on behalf of one runFlowNow invocation r. *)
(* r.idx is the step being executed, r.pc the call it is suspended in.      *)

StepIdOf(step) == IF "id" \in DOMAIN step THEN step.id ELSE step.type

Steps(r) == r.flow.steps

Log(r, line) == [r EXCEPT !.logs = Append(@, line)]

PushOutput_all(r, output, t) ==
  LET step == Steps(r)[r.idx]
  IN [r EXCEPT
        !.results = Put(@, StepIdOf(step), output),
        !.stepResults = Append(@, [stepId |-> StepIdOf(step), output |-> output, timestamp |-> t]),
        !.idx = @ + 1]

\* results.unshift in place of results.push
PushOutput_first(r, output, t) ==
  LET step == Steps(r)[r.idx]
      stored == IF step.type = "fetch"
                THEN [r EXCEPT !.results = Put(@, step.id, output)]
                ELSE r
  IN [stored EXCEPT
        !.stepResults = <<[stepId |-> StepIdOf(step), output |-> output, timestamp |-> t]>> \o @,
        !.idx = @ + 1]

\* results.push({ stepId, output, timestamp }) at the end of the try block
PushOutput(r, output, t) ==
  LET step == Steps(r)[r.idx]
      stored == IF step.type = "fetch"
                THEN [r EXCEPT !.results = Put(@, step.id, output)]
                ELSE r
  IN [stored EXCEPT
        !.stepResults = Append(@, [stepId |-> StepIdOf(step), output |-> output, timestamp |-> t]),
        !.idx = @ + 1]

StepThrows_success(r, message, t) ==
  LET step == Steps(r)[r.idx]
  IN [r EXCEPT
        !.logs = Append(@, [tag |-> "error", type |-> step.type, message |-> message]),
        !.stepResults = Append(@, [stepId |-> StepIdOf(step), error |-> message, timestamp |-> t]),
        !.pc = "returned",
        !.success = TRUE]

StepThrows_noLog(r, message, t) ==
  LET step == Steps(r)[r.idx]
  IN [r EXCEPT
        !.stepResults = Append(@, [stepId |-> StepIdOf(step), error |-> message, timestamp |-> t]),
        !.pc = "returned",
        !.success = FALSE]

\* the catch block of executeSteps
StepThrows(r, message, t) ==
  LET step == Steps(r)[r.idx]
  IN [r EXCEPT
        !.logs = Append(@, [tag |-> "error", type |-> step.type, message |-> message]),
        !.stepResults = Append(@, [stepId |-> StepIdOf(step), error |-> message, timestamp |-> t]),
        !.pc = "returned",
        !.success = FALSE]

\* A steps entry whose properties cannot be read (null where an object is
\* expected): reading step.type throws inside the try block, and the catch
\* block throws again while it builds its log line, so executeSteps rejects.
Unreadable == [type |-> "unreadable"]

Rejects(r, message) == [r EXCEPT !.pc = "threw", !.thrown = message]

\* the false test reported as a failed run: return { success: false, ... }
ShortCircuit_fails(r, line, t) ==
  [r EXCEPT
     !.logs = Append(@, line),
     !.stepResults = Append(@, [stepId |-> Steps(r)[r.idx].type, output |-> Bool(FALSE), timestamp |-> t]),
     !.pc = "returned",
     !.success = FALSE]

\* a condition or logic step that evaluated false
ShortCircuit(r, line, t) ==
  [r EXCEPT
     !.logs = Append(@, line),
     !.stepResults = Append(@, [stepId |-> Steps(r)[r.idx].type, output |-> Bool(FALSE), timestamp |-> t]),
     !.pc = "returned",
     !.success = TRUE]

executeLogic(step, context) ==
  IF step.logic = "AND"
  THEN \A i \in DOMAIN step.conditions : evaluateRule(step.conditions[i], context)
  ELSE \E i \in DOMAIN step.conditions : evaluateRule(step.conditions[i], context)

executeLog(r, step) ==
  LET baseMessage == interpolateTemplate(step.message, r.results)
      included == IF "include" \in DOMAIN step
                  THEN [i \in DOMAIN step.include |->
                          [key |-> step.include[i], value |-> getDeepValue(r.results, <<step.include[i]>>)]]
                  ELSE <<>>
  IN Log(r, [tag |-> "log", message |-> baseMessage, included |-> included])

\* the synchronous part of executeNotify: FALSE when building the payload throws
NotifyPayloadOk(step, results) ==
  IF step.method = "webhook" /\ "rawPayload" \in DOMAIN step /\ step.rawPayload # <<>>
  THEN JsonParses(interpolateTemplate(step.rawPayload, results))
  ELSE TRUE

RECURSIVE executeSteps(_, _)

AfterTest_goesOn(r, line, output, falseLine, t) ==
  executeSteps(PushOutput(Log(r, [line |-> line, result |-> output]), Bool(output), t), t)

\* a condition or logic step evaluated to output: false ends the run, true goes on
AfterTest(r, line, output, falseLine, t) ==
  IF ~output
  THEN ShortCircuit(Log(r, [line |-> line, result |-> output]), falseLine, t)
  ELSE executeSteps(PushOutput(Log(r, [line |-> line, result |-> output]), Bool(TRUE), t), t)

\* the delay step with its parsed duration
AfterParse(r, ms, t) ==
  IF ms < 0
  THEN StepThrows(r, [kind |-> "invalid-duration"], t)
  ELSE [r EXCEPT !.pc = "delay", !.wakeAt = t + TimerUnits(ms)]

\* Runs the for loop from step r.idx at instant t until the run suspends in an
\* awaited call (fetch, delay timer, notify POST) or executeSteps returns.
executeSteps(r, t) ==
  IF r.idx > Len(Steps(r)) THEN [r EXCEPT !.pc = "returned", !.success = TRUE]
  ELSE
    LET step == Steps(r)[r.idx]
        ctx == [results |-> r.results, logs |-> r.logs]
    IN CASE step.type = "fetch" ->
              [r EXCEPT !.pc = "fetch",
                        !.wakeAt = IF step.timeout_ms > 0 THEN t + TimerUnits(step.timeout_ms) ELSE NoTime]
         [] step.type = "condition" ->
              AfterTest(r, [tag |-> "condition", input |-> step.input],
                        evaluateRule(step, ctx),
                        [tag |-> "condition-false", input |-> step.input], t)
         [] step.type = "logic" ->
              AfterTest(r, [tag |-> "logic", mode |-> step.logic],
                        executeLogic(step, ctx),
                        [tag |-> "logic-false"], t)
         [] step.type = "delay" -> AfterParse(r, parseDuration(step.duration), t)
         [] step.type = "log" ->
              executeSteps(PushOutput(executeLog(r, step), Bool(TRUE), t), t)
         [] step.type = "notify" ->
              IF NotifyPayloadOk(step, r.results)
              THEN [r EXCEPT !.pc = "notify"]
              ELSE StepThrows(r, [kind |-> "invalid-webhook-json"], t)
         [] step.type = "unreadable" -> Rejects(r, [kind |-> "type-error"])
         [] OTHER -> StepThrows(r, [kind |-> "unsupported-step"], t)

\* What an awaited call can produce
FetchStatuses == {200}
FetchBodies == {Num(5)}

FetchHeaders == {EmptyMap}

FetchFailures == {[kind |-> "network-error"], [kind |-> "abort"]}

FetchOutcomes ==
  [kind : {"response"}, status : FetchStatuses, headers : FetchHeaders, body : FetchBodies]
    \cup FetchFailures

NotifyOutcomes == [kind : {"response"}, status : {200, 500}] \cup {[kind |-> "network-error"]}

IsOk(status) == status >= 200 /\ status <= 299

\* the awaited call of the suspended run r can settle with outcome o at instant t
CanSettle(r, o, t) ==
  CASE r.pc = "fetch" ->
         /\ o.kind \in {"response", "network-error", "abort"}
         /\ "status" \notin DOMAIN o \/ "body" \in DOMAIN o
         /\ o.kind = "abort" => (r.wakeAt # NoTime /\ t >= r.wakeAt)
         /\ o.kind = "response" => (r.wakeAt = NoTime \/ t <= r.wakeAt)
    [] r.pc = "delay" -> o = [kind |-> "timer"] /\ t >= r.wakeAt
    [] r.pc = "notify" -> o.kind \in {"response", "network-error"} /\ "body" \notin DOMAIN o
    [] OTHER -> FALSE

FetchOutput(o) == [t |-> "obj", status |-> Num(o.status), headers |-> o.headers, body |-> o.body]

FetchSettled_plainAbort(go, step, o, t) ==
  IF o.kind = "response"
  THEN PushOutput(Log(go, [tag |-> "fetch", id |-> step.id, status |-> o.status]), FetchOutput(o), t)
  ELSE StepThrows(go, [kind |-> "network-error"], t)

FetchSettled_throwsOnStatus(go, step, o, t) ==
  IF o.kind = "response" /\ IsOk(o.status)
  THEN PushOutput(Log(go, [tag |-> "fetch", id |-> step.id, status |-> o.status]), FetchOutput(o), t)
  ELSE IF o.kind = "response"
  THEN StepThrows(Log(go, [tag |-> "fetch", id |-> step.id, status |-> o.status]),
                  [kind |-> "fetch-failed", status |-> o.status], t)
  ELSE IF o.kind = "abort"
  THEN StepThrows(go, [kind |-> "timeout", ms |-> step.timeout_ms], t)
  ELSE StepThrows(go, [kind |-> "network-error"], t)

\* the rest of executeFetch once fetch() settled: any response is the output,
\* an AbortError becomes the timeout error, anything else is thrown as it is
FetchSettled(go, step, o, t) ==
  IF o.kind = "response"
  THEN PushOutput(Log(go, [tag |-> "fetch", id |-> step.id, status |-> o.status]), FetchOutput(o), t)
  ELSE IF o.kind = "abort"
  THEN StepThrows(go, [kind |-> "timeout", ms |-> step.timeout_ms], t)
  ELSE StepThrows(go, [kind |-> "network-error"], t)

NotifySettled_ignoresStatus(go, step, o, t) ==
  IF o.kind = "network-error" THEN StepThrows(go, [kind |-> "network-error"], t)
  ELSE PushOutput(Log(go, [tag |-> "notify", method |-> step.method, status |-> o.status]),
                  Bool(TRUE), t)

\* the rest of executeNotify once the POST settled: !resp.ok throws
NotifySettled(go, step, o, t) ==
  IF o.kind = "network-error" THEN StepThrows(go, [kind |-> "network-error"], t)
  ELSE IF ~IsOk(o.status)
  THEN StepThrows(Log(go, [tag |-> "notify", method |-> step.method, status |-> o.status]),
                  [kind |-> "notify-failed", status |-> o.status], t)
  ELSE PushOutput(Log(go, [tag |-> "notify", method |-> step.method, status |-> o.status]),
                  Bool(TRUE), t)

\* the rest of executeFetch / executeDelay / executeNotify once the awaited call
\* of the run `go` at step `step` settled: the step threw or its output was pushed
Awaited(go, step, o, t) ==
  CASE go.pc = "fetch" -> FetchSettled(go, step, o, t)
    [] go.pc = "delay" -> PushOutput(go, Bool(TRUE), t)
    [] go.pc = "notify" -> NotifySettled(go, step, o, t)

\* the for loop goes on after the step, unless the step threw
Continue(s, t) ==
  IF s.pc \in {"returned", "threw"} THEN s
  ELSE executeSteps([s EXCEPT !.pc = "running"], t)

\* the awaited call of r settles with outcome o: the step ends and the loop goes on
Settle(r, o, t) == Continue(Awaited([r EXCEPT !.wakeAt = NoTime], Steps(r)[r.idx], o, t), t)

----------------------------------------------------------------------------
(* Run orchestrator: runFlowNow *)

\* the state of runFlowNow up to the call of executeSteps
NewRun(id, flow, trigger, host, caller, storage, t) ==
  [id |-> id, flow |-> flow, trigger |-> trigger, host |-> host, caller |-> caller,
   storage |-> storage, startedAt |-> t,
   results |-> EmptyMap,
   logs |-> <<[tag |-> "system", trigger |-> trigger, at |-> t]>>,
   stepResults |-> <<>>, idx |-> 1, pc |-> "running", wakeAt |-> NoTime, success |-> FALSE,
   thrown |-> [kind |-> "none"]]

Caught_rethrow(r, t) == r

\* the try/catch around executeSteps: a rejection becomes one synthetic outcome
Caught(r, t) ==
  IF r.pc # "threw" THEN r
  ELSE [r EXCEPT
          !.pc = "returned",
          !.success = FALSE,
          !.stepResults = <<[stepId |-> "execution", error |-> r.thrown, timestamp |-> t]>>,
          !.logs = Append(@, [tag |-> "bare", message |-> r.thrown])]

\* runFlowNow from its start to the first suspension (or to its return)
runFlowNow(id, flow, trigger, host, caller, storage, t) ==
  Caught(executeSteps(NewRun(id, flow, trigger, host, caller, storage, t), t), t)

\* the awaited call of the invocation r settles with outcome o: the step ends, the
\* loop goes on, and runFlowNow catches what executeSteps throws
Resolved(r, o, t) == Caught(Settle(r, o, t), t)

\* the RunRecord runFlowNow returns at instant t
RunRecordOf(r, t) ==
  [id |-> r.id, flowId |-> r.flow.id, name |-> r.flow.name,
   status |-> IF r.success THEN "success" ELSE "failure",
   trigger |-> r.trigger, startedAt |-> r.startedAt, finishedAt |-> t,
   logs |-> r.logs, steps |-> r.stepResults, flow |-> r.flow]

----------------------------------------------------------------------------
(* Flow/run store: NexFlowManager *)

EmptyState == [flows |-> EmptyMap, history |-> EmptyMap]

\* enabled: flow.enabled ?? true
withDefaults(flow) ==
  IF "enabled" \in DOMAIN flow THEN flow
  ELSE [k \in (DOMAIN flow) \cup {"enabled"} |-> IF k = "enabled" THEN TRUE ELSE flow[k]]

\* trigger: run.trigger ?? "manual"
normalizeRun(run) ==
  IF "trigger" \in DOMAIN run THEN run
  ELSE [k \in (DOMAIN run) \cup {"trigger"} |-> IF k = "trigger" THEN "manual" ELSE run[k]]

\* persistRun with push in place of unshift
persistRun_push(state, record) ==
  LET flowId == record.flowId
      old == IF Has(state.history, flowId) THEN state.history[flowId] ELSE <<>>
  IN [flows |-> IF Has(state.flows, flowId)
                THEN Put(state.flows, flowId,
                         [state.flows[flowId] EXCEPT !.lastRunAt = record.finishedAt])
                ELSE state.flows,
      history |-> Put(state.history, flowId, Take(old \o <<record>>, HISTORY_LIMIT))]

\* persistRun with an off-by-one slice
persistRun_slice51(state, record) ==
  LET flowId == record.flowId
      old == IF Has(state.history, flowId) THEN state.history[flowId] ELSE <<>>
  IN [flows |-> IF Has(state.flows, flowId)
                THEN Put(state.flows, flowId,
                         [state.flows[flowId] EXCEPT !.lastRunAt = record.finishedAt])
                ELSE state.flows,
      history |-> Put(state.history, flowId, Take(<<record>> \o old, HISTORY_LIMIT + 1))]

\* persistRun stamping lastRunAt with startedAt
persistRun_startedAt(state, record) ==
  LET flowId == record.flowId
      old == IF Has(state.history, flowId) THEN state.history[flowId] ELSE <<>>
  IN [flows |-> IF Has(state.flows, flowId)
                THEN Put(state.flows, flowId,
                         [state.flows[flowId] EXCEPT !.lastRunAt = record.startedAt])
                ELSE state.flows,
      history |-> Put(state.history, flowId, Take(<<record>> \o old, HISTORY_LIMIT))]

\* persistRun that stamps the stored records with the flow definition of the new one
persistRun_refreshesSnapshots(state, record) ==
  LET normalized == normalizeRun(record)
      flowId == normalized.flowId
      old == IF Has(state.history, flowId) THEN state.history[flowId] ELSE <<>>
      stamped == [i \in DOMAIN old |-> [old[i] EXCEPT !.flow = normalized.flow]]
      history == Put(state.history, flowId, Take(<<normalized>> \o stamped, HISTORY_LIMIT))
      flows == IF Has(state.flows, flowId)
               THEN Put(state.flows, flowId,
                        [state.flows[flowId] EXCEPT !.lastRunAt = normalized.finishedAt])
               ELSE state.flows
  IN [flows |-> flows, history |-> history]

\* persistRun without `if (flow) { flow.lastRunAt = normalized.finishedAt; }`
persistRun_historyOnly(state, record) ==
  LET normalized == normalizeRun(record)
      flowId == normalized.flowId
      old == IF Has(state.history, flowId) THEN state.history[flowId] ELSE <<>>
  IN [flows |-> state.flows,
      history |-> Put(state.history, flowId, Take(<<normalized>> \o old, HISTORY_LIMIT))]

\* persistRun(state, record): the state it saves
persistRun(state, record) ==
  LET normalized == normalizeRun(record)
      flowId == normalized.flowId
      old == IF Has(state.history, flowId) THEN state.history[flowId] ELSE <<>>
      history == Put(state.history, flowId, Take(<<normalized>> \o old, HISTORY_LIMIT))
      flows == IF Has(state.flows, flowId)
               THEN Put(state.flows, flowId,
                        [state.flows[flowId] EXCEPT !.lastRunAt = normalized.finishedAt])
               ELSE state.flows
  IN [flows |-> flows, history |-> history]

\* POST /flows: the record stored for a payload
NewFlowRecord(payload, id, t) ==
  [id |-> id, name |-> payload.name, schedule |-> payload.schedule,
   enabled |-> payload.enabled, steps |-> payload.steps,
   createdAt |-> t, updatedAt |-> t, lastRunAt |-> NoTime]

\* PUT /flows/:id storing the payload as a new record: no lastRunAt carried over
UpdatedFlowRecord_forgetsLastRun(payload, flow, t) ==
  [id |-> flow.id, name |-> payload.name, schedule |-> payload.schedule,
   enabled |-> payload.enabled, steps |-> payload.steps,
   createdAt |-> flow.createdAt, updatedAt |-> t, lastRunAt |-> NoTime]

\* PUT /flows/:id: the record stored for a payload
UpdatedFlowRecord(payload, flow, t) ==
  [id |-> flow.id, name |-> payload.name, schedule |-> payload.schedule,
   enabled |-> payload.enabled, steps |-> payload.steps,
   createdAt |-> flow.createdAt, updatedAt |-> t, lastRunAt |-> flow.lastRunAt]

\* what the observation variables keep of a persisted record
Persisted(record) ==
  [id |-> record.id, flowId |-> record.flowId, trigger |-> record.trigger,
   startedAt |-> record.startedAt, finishedAt |-> record.finishedAt]

\* ensureFlowScheduler -> FlowScheduler.start(): every worker request goes through it
ensureFlowScheduler(s) ==
  IF s.timer # NoTime THEN s ELSE [s EXCEPT !.timer = now + SCHEDULER_INTERVAL]

\* The end of the POST /flows/:id/run handler for the run state r (after
\* runFlowNow ran as far as it could): persist when it returned, else stay in flight.
ManagerRunSettled(r) ==
  IF r.pc = "returned"
  THEN LET record == RunRecordOf(r, now)
       IN /\ store' = persistRun(r.storage, record)
          /\ runs' = Remove(runs, r.id)
          /\ persistLog' = Append(persistLog, Persisted(record))
          /\ lastWrite' = [kind |-> "persist", flowId |-> record.flowId, id |-> record.id]
  ELSE /\ runs' = Put(runs, r.id, r)
       /\ UNCHANGED <<store, persistLog, lastWrite>>

\* a template that is empty or holds white space only: !text || !text.trim()
Blank(template) ==
  \A i \in DOMAIN template :
    "lit" \in DOMAIN template[i] /\ \A j \in DOMAIN template[i].lit : template[i].lit[j] = 32

\* superRefine(validateNotifySteps): TRUE when it adds no issue
validateNotifySteps(steps) ==
  /\ \A i, j \in DOMAIN steps :
       (i < j /\ steps[i].type = "fetch" /\ steps[j].type = "fetch") => steps[i].id # steps[j].id
  /\ \A i \in DOMAIN steps :
       steps[i].type = "notify" =>
         IF steps[i].method = "webhook"
         THEN "rawPayload" \in DOMAIN steps[i] /\ ~Blank(steps[i].rawPayload)
         ELSE "message" \in DOMAIN steps[i] /\ ~Blank(steps[i].message)

\* FlowConfigCoreSchema alone
FlowConfigSchema_coreOnly(payload) == \A i \in DOMAIN payload.steps : payload.steps[i] # Unreadable

\* FlowConfigSchema.parse(payload) succeeds; name: z.string() takes any string
FlowConfigSchema(payload) ==
  /\ \A i \in DOMAIN payload.steps : payload.steps[i] # Unreadable
  /\ validateNotifySteps(payload.steps)

\* POST /flows that stores the payload over a flow of the same id
CreateFlow_overwrites(payload) ==
  LET id == generateFlowId(payload.name)
  IN /\ sched' = ensureFlowScheduler(sched)
     /\ IF ~FlowConfigSchema(payload)
        THEN UNCHANGED <<store, lastWrite>>
        ELSE /\ store' = [store EXCEPT !.flows = Put(@, id, withDefaults(NewFlowRecord(payload, id, now)))]
             /\ lastWrite' = [kind |-> "create", flowId |-> id, id |-> 0]
     /\ UNCHANGED <<now, runs, nextRun, engine, cronLog, persistLog>>
     /\ calls < budget.calls /\ calls' = calls + 1 /\ UNCHANGED fixed

CreateFlow(payload) ==
  LET id == generateFlowId(payload.name)
  IN /\ sched' = ensureFlowScheduler(sched)
     /\ IF ~FlowConfigSchema(payload)
        THEN UNCHANGED <<store, lastWrite>>      \* ZodError: 400
        ELSE IF Has(store.flows, id)
        THEN UNCHANGED <<store, lastWrite>>      \* 409
        ELSE /\ store' = [store EXCEPT !.flows = Put(@, id, withDefaults(NewFlowRecord(payload, id, now)))]
             /\ lastWrite' = [kind |-> "create", flowId |-> id, id |-> 0]
     /\ UNCHANGED <<now, runs, nextRun, engine, cronLog, persistLog>>
     /\ calls < budget.calls /\ calls' = calls + 1 /\ UNCHANGED fixed

UpdateFlow(id, payload) ==
  /\ Has(store.flows, id)
  /\ sched' = ensureFlowScheduler(sched)
  /\ IF ~FlowConfigSchema(payload)
     THEN UNCHANGED <<store, lastWrite>>         \* ZodError: 400
     ELSE /\ store' = [store EXCEPT !.flows =
                         Put(@, id, withDefaults(UpdatedFlowRecord(payload, withDefaults(store.flows[id]), now)))]
          /\ lastWrite' = [kind |-> "update", flowId |-> id, id |-> 0]
  /\ UNCHANGED <<now, runs, nextRun, engine, cronLog, persistLog>>
  /\ calls < budget.calls /\ calls' = calls + 1 /\ UNCHANGED fixed

\* DELETE /flows/:id without delete storage.history[id]
DeleteFlow_keepsHistory(id) ==
  /\ Has(store.flows, id)
  /\ sched' = ensureFlowScheduler(sched)
  /\ store' = [store EXCEPT !.flows = Remove(store.flows, id)]
  /\ lastWrite' = [kind |-> "delete", flowId |-> id, id |-> 0]
  /\ persistLog' = SelectSeq(persistLog, LAMBDA e : e.flowId # id)
  /\ UNCHANGED <<now, runs, nextRun, engine, cronLog>>
  /\ calls < budget.calls /\ calls' = calls + 1 /\ UNCHANGED fixed

DeleteFlow(id) ==
  /\ Has(store.flows, id)
  /\ sched' = ensureFlowScheduler(sched)
  /\ store' = [flows |-> Remove(store.flows, id), history |-> Remove(store.history, id)]
  /\ lastWrite' = [kind |-> "delete", flowId |-> id, id |-> 0]
  /\ persistLog' = SelectSeq(persistLog, LAMBDA e : e.flowId # id)
  /\ UNCHANGED <<now, runs, nextRun, engine, cronLog>>
  /\ calls < budget.calls /\ calls' = calls + 1 /\ UNCHANGED fixed

SetEnabled(id, enabled) ==
  /\ Has(store.flows, id)
  /\ sched' = ensureFlowScheduler(sched)
  /\ store' = [store EXCEPT !.flows =
                 Put(@, id, [withDefaults(store.flows[id]) EXCEPT !.enabled = enabled, !.updatedAt = now])]
  /\ lastWrite' = [kind |-> "enabled", flowId |-> id, id |-> 0]
  /\ UNCHANGED <<now, runs, nextRun, engine, cronLog, persistLog>>
  /\ calls < budget.calls /\ calls' = calls + 1 /\ UNCHANGED fixed

CanStartRun == nextRun <= budget.runs /\ Cardinality(DOMAIN runs) < MaxInFlight

\* POST /api/flows/:id/run -> manager.run(id, {trigger: "manual"})
ManualRun(id) ==
  /\ Has(store.flows, id)
  /\ CanStartRun
  /\ sched' = ensureFlowScheduler(sched)
  /\ nextRun' = nextRun + 1
  /\ ManagerRunSettled(runFlowNow(nextRun, withDefaults(store.flows[id]), "manual",
                                  "manager", <<"api">>, store, now))
  /\ calls < budget.calls /\ calls' = calls + 1 /\ UNCHANGED fixed
  /\ UNCHANGED <<now, engine, cronLog>>

----------------------------------------------------------------------------
(* Scheduler loop: FlowScheduler *)

\* tick() without its busy check
TickBusy_never(s) == FALSE

\* if (this.running) return;
TickBusy(s) == s.running

shouldRun(flow, at) ==
  IF flow.enabled = FALSE THEN FALSE
  ELSE IF flow.schedule = "" THEN FALSE
  ELSE isDue(flow.schedule, flow.lastRunAt, at)

\* the flows of a sweep that the for loop has not reached yet and will trigger
Pending(tick) == {f \in tick.todo : shouldRun(tick.flows[f], tick.at)}

\* the flows of a sweep's listing that shouldRun accepts
DueInTick(tick) == {f \in DOMAIN tick.flows : shouldRun(tick.flows[f], tick.at)}

NewTick(flows, t) ==
  [flows |-> flows, at |-> t, todo |-> DOMAIN flows, pc |-> "loop",
   awaiting |-> 0, triggered |-> {}, failed |-> {}]

\* manager.run(flow.id, ...) was called for f
Triggered(tick, f) == [tick EXCEPT !.todo = @ \ {f}, !.triggered = @ \cup {f}]

\* the for loop without its inner try/catch: the error ends the sweep
OnRunError_abort(tick, f) == [tick EXCEPT !.failed = @ \cup {f}, !.todo = {}]

\* catch (err) { console.error(...) } inside the for loop
OnRunError(tick, f) == [tick EXCEPT !.failed = @ \cup {f}]

\* the await of manager.run for run state r, as tick k sees it
AwaitRun(tick, r) ==
  IF r.pc = "returned" THEN [tick EXCEPT !.pc = "loop", !.awaiting = 0]
  ELSE [tick EXCEPT !.pc = "await", !.awaiting = r.id]

\* setInterval callback -> tick(), up to and including the listing
TimerFire ==
  /\ sched.timer # NoTime
  /\ now >= sched.timer
  /\ sched.fired < MaxTicks
  /\ LET s1 == [sched EXCEPT !.timer = @ + SCHEDULER_INTERVAL, !.fired = @ + 1]
         list == [f \in DOMAIN store.flows |-> withDefaults(store.flows[f])]
     IN IF TickBusy(sched) THEN sched' = [s1 EXCEPT !.skipped = @ + 1]
        ELSE IF DOMAIN list = {} THEN sched' = s1
        ELSE sched' = [s1 EXCEPT !.running = TRUE,
                                 !.ticks = Put(@, sched.fired + 1, NewTick(list, now))]
  /\ UNCHANGED <<now, store, runs, nextRun, engine, cronLog, persistLog, lastWrite, calls, fixed>>

CronStart(flowId, source, sawEnabled, sawDue) ==
  [flowId |-> flowId, at |-> now, source |-> source, enabled |-> sawEnabled, due |-> sawDue]

\* tick k awaits the manager's run handler, whose run state is r
TickRun(k, tick, r) ==
  /\ ManagerRunSettled(r)
  /\ sched' = [sched EXCEPT !.ticks[k] = AwaitRun(tick, r)]

\* one iteration of the for loop that passes shouldRun: await manager.run(flow.id, {trigger: "cron"})
TickStep(k, f) ==
  /\ Has(sched.ticks, k)
  /\ sched.ticks[k].pc = "loop"
  /\ f \in Pending(sched.ticks[k])
  /\ LET tick == Triggered(sched.ticks[k], f)
     IN IF ~Has(store.flows, f)
        THEN \* 404 -> DurableObjectError
             /\ sched' = [sched EXCEPT !.ticks[k] = OnRunError(tick, f)]
             /\ UNCHANGED <<store, runs, nextRun, cronLog, persistLog, lastWrite>>
        ELSE /\ CanStartRun
             /\ TickRun(k, tick, runFlowNow(nextRun, withDefaults(store.flows[f]), "cron",
                                            "manager", <<"tick", k>>, store, now))
             /\ nextRun' = nextRun + 1
             /\ cronLog' = Append(cronLog, CronStart(f, "FlowScheduler",
                                    sched.ticks[k].flows[f].enabled,
                                    isDue(sched.ticks[k].flows[f].schedule,
                                          sched.ticks[k].flows[f].lastRunAt, sched.ticks[k].at)))
  /\ UNCHANGED <<now, engine, calls, fixed>>

\* tick() without its finally block
TickFinish_staysBusy(k) ==
  /\ Has(sched.ticks, k)
  /\ sched.ticks[k].pc = "loop"
  /\ Pending(sched.ticks[k]) = {}
  /\ sched' = [sched EXCEPT !.ticks = Remove(@, k)]
  /\ UNCHANGED <<now, store, runs, nextRun, engine, cronLog, persistLog, lastWrite, calls, fixed>>

\* the for loop is over: finally { this.running = false }
TickFinish(k) ==
  /\ Has(sched.ticks, k)
  /\ sched.ticks[k].pc = "loop"
  /\ Pending(sched.ticks[k]) = {}
  /\ sched' = [sched EXCEPT !.running = FALSE, !.ticks = Remove(@, k)]
  /\ UNCHANGED <<now, store, runs, nextRun, engine, cronLog, persistLog, lastWrite, calls, fixed>>

----------------------------------------------------------------------------
(* Workflow scheduler: NexFlowEngine (cron trigger "* * * * *") *)

\* the order in which Promise.all(runnable.map(...)) starts the runs
RECURSIVE ListOf(_)
ListOf(S) == IF S = {} THEN <<>> ELSE LET x == CHOOSE y \in S : TRUE IN <<x>> \o ListOf(S \ {x})

\* runnable = flows.filter((flow) => isDue(flow.schedule, flow.lastRunAt, now))
Runnable(flows, at) == {f \in DOMAIN flows : isDue(flows[f].schedule, flows[f].lastRunAt, at)}

\* the state of the loop of run() after a checkAndRunFlows that awaits the runs in `awaiting`
AfterCheck(inst, awaiting) ==
  IF awaiting # {} THEN [inst EXCEPT !.pc = "runs", !.awaiting = awaiting]
  ELSE IF now - inst.loopStart < LOOP_DURATION
  THEN [inst EXCEPT !.pc = "sleep", !.awaiting = {}, !.wakeAt = now + INTERVAL]
  ELSE [inst EXCEPT !.pc = "sleep", !.awaiting = {}, !.wakeAt = now]

\* runs started by one checkAndRunFlows: run ids nextRun, nextRun + 1, ... in list order
EngineRuns(flows, order, i) ==
  [n \in 1..Len(order) |->
     runFlowNow(nextRun + n - 1, flows[order[n]], "cron", "engine", <<"engine", i>>, EmptyState, now)]

\* the runs a checkAndRunFlows would start now fit the bounds of the model
\* the listing checkAndRunFlows gets from GET /flows
Listing == [f \in DOMAIN store.flows |-> withDefaults(store.flows[f])]

Fits(started) ==
  /\ nextRun + Len(started) - 1 <= budget.runs
  /\ Cardinality(DOMAIN runs) + Cardinality({n \in DOMAIN started : started[n].pc # "returned"})
       <= MaxInFlight

StartedBy(i, flows) == EngineRuns(flows, ListOf(Runnable(flows, now)), i)

CanCheck == Fits(StartedBy(0, Listing))

\* instance i started the runs `started`, in this order
Checked(i, started) ==
  /\ nextRun' = nextRun + Len(started)
  /\ runs' = [id \in (DOMAIN runs) \cup {started[n].id : n \in {m \in DOMAIN started : started[m].pc # "returned"}} |->
                IF Has(runs, id) THEN runs[id] ELSE started[id - nextRun + 1]]
  /\ engine' = [engine EXCEPT
                  !.writes = @ \cup {RunRecordOf(started[n], now) :
                                       n \in {m \in DOMAIN started : started[m].pc = "returned"}},
                  !.instances[i] = AfterCheck(@, {started[n].id :
                                       n \in {m \in DOMAIN started : started[m].pc # "returned"}})]
  /\ cronLog' = cronLog \o [n \in DOMAIN started |->
                              CronStart(started[n].flow.id, "NexFlowEngine", started[n].flow.enabled, TRUE)]

\* checkAndRunFlows of instance i
EngineCheck(i) ==
  /\ Has(engine.instances, i)
  /\ engine.instances[i].pc = "check"
  /\ Fits(StartedBy(i, Listing))
  /\ Checked(i, StartedBy(i, Listing))
  /\ UNCHANGED <<now, store, sched, persistLog, lastWrite, calls, fixed>>

\* the platform starts a workflow instance: run()
WorkflowCron ==
  /\ engine.workflowAt # NoTime
  /\ now >= engine.workflowAt
  /\ engine.started < MaxCronEvents
  /\ engine' = [engine EXCEPT
                  !.workflowAt = @ + MINUTE,
                  !.started = @ + 1,
                  !.instances = Put(@, engine.started + 1,
                                    [loopStart |-> now, pc |-> "check", awaiting |-> {}, wakeAt |-> now])]
  /\ UNCHANGED <<now, store, runs, nextRun, sched, cronLog, persistLog, lastWrite, calls, fixed>>

\* the setTimeout(resolve, INTERVAL) of run() elapsed: the while condition is evaluated
EngineWake(i) ==
  /\ Has(engine.instances, i)
  /\ engine.instances[i].pc = "sleep"
  /\ now >= engine.instances[i].wakeAt
  /\ engine' = IF now - engine.instances[i].loopStart < LOOP_DURATION
               THEN [engine EXCEPT !.instances[i].pc = "check"]
               ELSE [engine EXCEPT !.instances = Remove(@, i)]
  /\ UNCHANGED <<now, store, runs, nextRun, sched, cronLog, persistLog, lastWrite, calls, fixed>>

\* writeRunRecord: POST /runs handled by the manager
EngineWrite(record) ==
  /\ record \in engine.writes
  /\ engine' = [engine EXCEPT !.writes = @ \ {record}]
  /\ store' = persistRun(store, record)
  /\ persistLog' = Append(persistLog, Persisted(record))
  /\ lastWrite' = [kind |-> "persist", flowId |-> record.flowId, id |-> record.id]
  /\ UNCHANGED <<now, runs, nextRun, sched, cronLog, calls, fixed>>

EngineRunSettled_dropsFailures(r) ==
  LET i == r.caller[2]
  IN IF r.pc = "returned"
     THEN /\ runs' = Remove(runs, r.id)
          /\ engine' = [engine EXCEPT
                          !.writes = IF r.success THEN @ \cup {RunRecordOf(r, now)} ELSE @,
                          !.instances[i] = AfterCheck(@, engine.instances[i].awaiting \ {r.id})]
     ELSE /\ runs' = Put(runs, r.id, r)
          /\ UNCHANGED engine

\* an engine-hosted run state r after runFlowNow ran as far as it could
EngineRunSettled(r) ==
  LET i == r.caller[2]
  IN IF r.pc = "returned"
     THEN /\ runs' = Remove(runs, r.id)
          /\ engine' = [engine EXCEPT
                          !.writes = @ \cup {RunRecordOf(r, now)},
                          !.instances[i] = AfterCheck(@, engine.instances[i].awaiting \ {r.id})]
     ELSE /\ runs' = Put(runs, r.id, r)
          /\ UNCHANGED engine

----------------------------------------------------------------------------
(* Worker cron handler: scheduled() *)

\* the platform calls scheduled(): one manager.run request per flow that is not disabled
ScheduledCron ==
  /\ engine.scheduledAt # NoTime
  /\ now >= engine.scheduledAt
  /\ engine.scheduled < MaxCronEvents
  /\ engine' = [engine EXCEPT
                  !.scheduledAt = @ + MINUTE,
                  !.scheduled = @ + 1,
                  !.requests = @ \cup
                     {[flowId |-> f,
                       due |-> isDue(store.flows[f].schedule, store.flows[f].lastRunAt, now)] :
                        f \in {g \in DOMAIN store.flows : withDefaults(store.flows[g]).enabled # FALSE}}]
  /\ UNCHANGED <<now, store, runs, nextRun, sched, cronLog, persistLog, lastWrite, calls, fixed>>

\* the manager handles one of those requests: POST /flows/:id/run {trigger: "cron"}
ScheduledRun(req) ==
  /\ req \in engine.requests
  /\ engine' = [engine EXCEPT !.requests = @ \ {req}]
  /\ IF ~Has(store.flows, req.flowId)
     THEN UNCHANGED <<store, runs, nextRun, cronLog, persistLog, lastWrite>>
     ELSE /\ CanStartRun
          /\ nextRun' = nextRun + 1
          /\ ManagerRunSettled(runFlowNow(nextRun, withDefaults(store.flows[req.flowId]), "cron",
                                          "manager", <<"scheduled">>, store, now))
          /\ cronLog' = Append(cronLog, CronStart(req.flowId, "scheduled", TRUE, req.due))
  /\ UNCHANGED <<now, sched, calls, fixed>>

----------------------------------------------------------------------------
(* Awaited calls settle; time passes *)

\* the awaited call of run id settles with outcome o and the run continues
\* the run state r goes back to the code that awaits it
Resumed(r) ==
  IF r.host = "manager"
  THEN /\ ManagerRunSettled(r)
       /\ sched' = IF r.caller[1] = "tick"
                   THEN [sched EXCEPT !.ticks[r.caller[2]] = AwaitRun(@, r)]
                   ELSE sched
       /\ UNCHANGED engine
  ELSE /\ EngineRunSettled(r)
       /\ UNCHANGED <<store, sched, persistLog, lastWrite>>

Resume(id, o) ==
  /\ Has(runs, id)
  /\ CanSettle(runs[id], o, now)
  /\ Resumed(Resolved(runs[id], o, now))
  /\ UNCHANGED <<now, nextRun, cronLog, calls, fixed>>

\* a timer that is due and whose callback can still run
TimerDue ==
  \/ sched.timer # NoTime /\ now >= sched.timer /\ sched.fired < MaxTicks
  \/ engine.workflowAt # NoTime /\ now >= engine.workflowAt /\ engine.started < MaxCronEvents
  \/ engine.scheduledAt # NoTime /\ now >= engine.scheduledAt /\ engine.scheduled < MaxCronEvents
  \/ \E i \in DOMAIN engine.instances :
       engine.instances[i].pc = "sleep" /\ now >= engine.instances[i].wakeAt
  \/ \E id \in DOMAIN runs : runs[id].wakeAt # NoTime /\ now >= runs[id].wakeAt
  \/ call.pc \in {"fetch", "delay"} /\ call.wakeAt # NoTime /\ now >= call.wakeAt
  \/ \E i \in DOMAIN engine.instances : engine.instances[i].pc = "check" /\ CanCheck
  \/ engine.writes # {}
  \/ \E req \in engine.requests : ~Has(store.flows, req.flowId) \/ CanStartRun
  \/ \E k \in DOMAIN sched.ticks :
       /\ sched.ticks[k].pc = "loop"
       /\ \/ Pending(sched.ticks[k]) = {}
          \/ CanStartRun
          \/ \E f \in Pending(sched.ticks[k]) : ~Has(store.flows, f)

Advance ==
  /\ now < MaxTime
  /\ ~TimerDue
  /\ now' = now + 1
  /\ UNCHANGED <<store, runs, nextRun, sched, engine, cronLog, persistLog, lastWrite, calls, fixed>>

----------------------------------------------------------------------------
(* Inputs *)

LogStep == [type |-> "log", message |-> <<[lit |-> <<104, 105>>]>>]
DelayStep == [type |-> "delay", duration |-> [value |-> 15, unit |-> "s"]]
BadDelayStep == [type |-> "delay", duration |-> [value |-> 15, unit |-> "sec"]]
FetchStep == [type |-> "fetch", id |-> "p", url |-> "u", method |-> "GET", timeout_ms |-> 0]

NameA == <<"a">>
NameB == <<"b">>

IdA == generateFlowId(NameA)
IdB == generateFlowId(NameB)
FlowIds == {IdA, IdB}

\* payloads of POST /flows and PUT /flows/:id
FlowConfigs ==
  [name : {NameA, NameB}, schedule : {EveryMinute}, enabled : {TRUE},
   steps : {<<LogStep>>, <<DelayStep>>, <<FetchStep>>}]

----------------------------------------------------------------------------
(* Specifications *)

InitBase ==
  /\ now = 0
  /\ store = EmptyState
  /\ runs = EmptyMap
  /\ nextRun = 1
  /\ sched = [timer |-> NoTime, running |-> FALSE, fired |-> 0, skipped |-> 0, ticks |-> EmptyMap]
  /\ cronLog = <<>>
  /\ persistLog = <<>>
  /\ lastWrite = [kind |-> "none", flowId |-> <<>>, id |-> 0]
  /\ calls = 0
  /\ call = NoCall

InitCommon ==
  /\ InitBase
  /\ budget = [calls |-> MaxCalls, runs |-> MaxRuns]

NoInstances == [workflowAt |-> NoTime, scheduledAt |-> NoTime, started |-> 0, scheduled |-> 0, instances |-> EmptyMap, writes |-> {}, requests |-> {}]

\* the worker with its FlowScheduler and the manager, no platform cron trigger configured
InitScheduler ==
  /\ InitCommon
  /\ engine = NoInstances

\* the deployment with the workflow's cron trigger and the worker's cron trigger
Init ==
  /\ InitCommon
  /\ engine = [NoInstances EXCEPT !.workflowAt = 0, !.scheduledAt = 0]

Api ==
  \/ \E payload \in FlowConfigs : CreateFlow(payload)
  \/ \E id \in FlowIds : DeleteFlow(id)
  \/ \E id \in FlowIds, enabled \in BOOLEAN : SetEnabled(id, enabled)
  \/ \E id \in FlowIds : ManualRun(id)

Outcomes == FetchOutcomes \cup NotifyOutcomes \cup {[kind |-> "timer"]}

Scheduler ==
  \/ TimerFire
  \/ \E k \in 1..MaxTicks, f \in FlowIds : TickStep(k, f)
  \/ \E k \in 1..MaxTicks : TickFinish(k)

Platform ==
  \/ WorkflowCron
  \/ \E i \in 1..MaxCronEvents : EngineCheck(i)
  \/ \E i \in 1..MaxCronEvents : EngineWake(i)
  \/ \E record \in engine.writes : EngineWrite(record)
  \/ ScheduledCron
  \/ \E req \in engine.requests : ScheduledRun(req)

Settling == \E id \in DOMAIN runs, o \in Outcomes : Resume(id, o)

NextScheduler == Api \/ Scheduler \/ Settling \/ Advance

\* the requests the platform specification draws from
PlatformConfigs == {c \in FlowConfigs : c.steps[1].type # "fetch"}

ApiPlatform ==
  \/ \E payload \in PlatformConfigs : CreateFlow(payload)
  \/ \E id \in FlowIds : SetEnabled(id, FALSE)

Next == ApiPlatform \/ Scheduler \/ Platform \/ Settling \/ Advance

\* two flows, one of them with a schedule that does not parse, under every scheduling entry point
MalformedConfigs ==
  {c \in [name : {NameA, NameB}, schedule : {BadCron, EveryMinute}, enabled : {TRUE},
          steps : {<<DelayStep>>}] : (c.name = NameA) <=> (c.schedule = BadCron)}

NextMalformed ==
  \/ \E payload \in MalformedConfigs : CreateFlow(payload)
  \/ Scheduler \/ Platform \/ Settling \/ Advance

SpecMalformed == Init /\ [][NextMalformed]_vars

SpecScheduler == InitScheduler /\ [][NextScheduler]_vars

Spec == Init /\ [][Next]_vars

\* one flow, created, run by hand and by the scheduler, and deleted
OneFlowConfigs == {c \in FlowConfigs : c.name = NameA /\ c.steps[1].type = "fetch"}

ApiOneFlow ==
  \/ \E payload \in OneFlowConfigs : CreateFlow(payload)
  \/ DeleteFlow(IdA)
  \/ ManualRun(IdA)

NextOneFlow == ApiOneFlow \/ Scheduler \/ Settling \/ Advance

SpecOneFlow == InitScheduler /\ [][NextOneFlow]_vars

\* two flows whose runs await a fetch, created and deleted while the scheduler sweeps
SweepConfigs == {c \in FlowConfigs : c.steps[1].type = "fetch"}

ApiSweep ==
  \/ \E payload \in SweepConfigs : CreateFlow(payload)
  \/ \E id \in FlowIds : DeleteFlow(id)

NextSweep == ApiSweep \/ Scheduler \/ Settling \/ Advance

SpecSweep == InitScheduler /\ [][NextSweep]_vars

\* sweeps over two stored flows, with room for every run a sweep may start, and
\* an event loop that goes on with every continuation that can run; every
\* awaited fetch settles.  The state after two POST /flows at instant 0:
TickingFlow(name) ==
  withDefaults(NewFlowRecord([name |-> name, schedule |-> EveryMinute, enabled |-> TRUE,
                              steps |-> <<FetchStep>>], generateFlowId(name), 0))

InitTicking ==
  /\ now = 0
  /\ store = [flows |-> Put(Put(EmptyMap, IdA, TickingFlow(NameA)), IdB, TickingFlow(NameB)),
              history |-> EmptyMap]
  /\ runs = EmptyMap
  /\ nextRun = 1
  /\ sched = [timer |-> SCHEDULER_INTERVAL, running |-> FALSE, fired |-> 0, skipped |-> 0,
              ticks |-> EmptyMap]
  /\ cronLog = <<>>
  /\ persistLog = <<>>
  /\ lastWrite = [kind |-> "create", flowId |-> IdB, id |-> 0]
  /\ calls = 2
  /\ call = NoCall
  /\ budget = [calls |-> MaxCalls, runs |-> 2 * MaxTicks]
  /\ engine = NoInstances

NextTicking ==
  \/ \E id \in FlowIds : DeleteFlow(id)
  \/ Scheduler \/ Settling \/ Advance

SpecTicking ==
  /\ InitTicking /\ [][NextTicking]_vars
  /\ WF_vars(\E k \in 1..MaxTicks, f \in FlowIds : TickStep(k, f))
  /\ WF_vars(\E k \in 1..MaxTicks : TickFinish(k))
  /\ WF_vars(Settling)

\* one flow, created and deleted while the platform's cron triggers run it
RetiredConfigs ==
  [name : {NameA}, schedule : {EveryMinute}, enabled : {TRUE}, steps : {<<LogStep>>, <<DelayStep>>}]

NextRetired ==
  \/ \E payload \in RetiredConfigs : CreateFlow(payload)
  \/ DeleteFlow(IdA)
  \/ Scheduler \/ Platform \/ Settling \/ Advance

SpecRetired == Init /\ [][NextRetired]_vars

\* one flow run over and over through "run now", to fill its history
CapConfigs ==
  [name : {NameA}, schedule : {EveryMinute, BadCron}, enabled : {TRUE},
   steps : {<<LogStep>>, <<BadDelayStep>>}]

InitCap ==
  /\ InitBase
  /\ budget = [calls |-> MaxCapRuns + 1, runs |-> MaxCapRuns]
  /\ engine = NoInstances

NextCap ==
  \/ \E payload \in CapConfigs : CreateFlow(payload)
  \/ ManualRun(IdA)

SpecCap == InitCap /\ [][NextCap]_vars

\* one flow whose runs can fail, run by hand, by the scheduler loop, by the
\* workflow and by the worker's cron handler
FailingConfigs ==
  [name : {NameA}, schedule : {EveryMinute}, enabled : {TRUE},
   steps : {<<BadDelayStep>>, <<DelayStep, BadDelayStep>>}]

\* the deployment right after POST /flows created the flow, at instant 0
InitFailing ==
  /\ now = 0
  /\ \E payload \in FailingConfigs :
       store = [EmptyState EXCEPT !.flows = Put(@, IdA, withDefaults(NewFlowRecord(payload, IdA, 0)))]
  /\ runs = EmptyMap
  /\ nextRun = 1
  /\ sched = [timer |-> SCHEDULER_INTERVAL, running |-> FALSE, fired |-> 0, skipped |-> 0, ticks |-> EmptyMap]
  /\ engine = [NoInstances EXCEPT !.workflowAt = 0, !.scheduledAt = 0]
  /\ cronLog = <<>>
  /\ persistLog = <<>>
  /\ lastWrite = [kind |-> "create", flowId |-> IdA, id |-> 0]
  /\ calls = 1
  /\ budget = [calls |-> MaxCalls, runs |-> MaxRuns]
  /\ call = NoCall

NextFailing == ManualRun(IdA) \/ Scheduler \/ Platform \/ Settling \/ Advance

SpecFailing == InitFailing /\ [][NextFailing]_vars

\* ctx.waitUntil keeps the instance alive until writeRunRecord has settled
SpecFailingFair ==
  SpecFailing /\ WF_vars(\E record \in engine.writes : EngineWrite(record))

----------------------------------------------------------------------------
(* runFlowNow invoked directly on a flow record, one invocation per behaviour *)

TimedFetchStep == [type |-> "fetch", id |-> "q", url |-> "u", method |-> "GET", timeout_ms |-> 15000]

\* p.status = 200
StatusIsOk == [input |-> <<"p", "status">>, operator |-> "=", value |-> Num(200)]
\* q.status = "200"
TimedStatusIsOk == [input |-> <<"q", "status">>, operator |-> "=", value |-> Str(<<50, 48, 48>>)]

ConditionStep == [type |-> "condition"] @@ StatusIsOk
LogicStep == [type |-> "logic", logic |-> "OR", conditions |-> <<StatusIsOk, TimedStatusIsOk>>]
WebhookStep == [type |-> "notify", method |-> "webhook", url |-> "w", rawPayload |-> <<[expr |-> <<"p", "body">>]>>]
SlackStep == [type |-> "notify", method |-> "slack", url |-> "w", message |-> <<[lit |-> <<104, 105>>]>>]

\* the steps FlowConfigSchema accepts, as far as the interpreter tells them apart
ValidSteps ==
  {FetchStep, TimedFetchStep, ConditionStep, LogicStep, DelayStep, BadDelayStep,
   LogStep, WebhookStep, SlackStep}

StepKinds == ValidSteps \cup {Unreadable}

\* validateNotifySteps: each fetch step must have a unique id
UniqueFetchIds(steps) ==
  \A i, j \in DOMAIN steps :
    (steps[i].type = "fetch" /\ steps[j].type = "fetch" /\ steps[i].id = steps[j].id) => i = j

StepLists == {steps \in UNION {[1..n -> StepKinds] : n \in 0..MaxSteps} : UniqueFetchIds(steps)}

StepStatuses == {200, 404}

StepOutcomes ==
  [kind : {"response"}, status : StepStatuses, headers : FetchHeaders, body : FetchBodies]
    \cup FetchFailures \cup NotifyOutcomes \cup {[kind |-> "timer"]}

\* the invocation r together with what its caller's environment last did to it:
\* got.step is the step whose awaited call settled last, got.o with what
Observed(r, step, o) ==
  [k \in DOMAIN r \cup {"got"} |-> IF k = "got" THEN [step |-> step, o |-> o] ELSE r[k]]

NotSettled == [kind |-> "none"]

\* const record = await runFlowNow(flow): up to the first suspension
Invoke(steps) ==
  /\ call.pc = "idle"
  /\ call' = Observed(runFlowNow(nextRun,
                        withDefaults(NewFlowRecord([name |-> NameA, schedule |-> EveryMinute,
                                                    enabled |-> TRUE, steps |-> steps], IdA, now)),
                        "manual", "caller", <<"direct">>, store, now), 0, NotSettled)
  /\ nextRun' = nextRun + 1
  /\ UNCHANGED <<now, store, runs, sched, engine, cronLog, persistLog, lastWrite, calls, budget>>

\* the call the invocation awaits settles with outcome o
Return(o) ==
  /\ call.pc \in {"fetch", "delay", "notify"}
  /\ CanSettle(call, o, now)
  /\ call' = Observed(Resolved(call, o, now), call.idx, o)
  /\ UNCHANGED <<now, store, runs, nextRun, sched, engine, cronLog, persistLog, lastWrite, calls, budget>>

NextSteps ==
  \/ call.pc = "idle" /\ \E steps \in StepLists : Invoke(steps)
  \/ \E o \in StepOutcomes : Return(o)
  \/ Advance

SpecSteps == InitScheduler /\ [][NextSteps]_vars

----------------------------------------------------------------------------
(* isDue applied directly to a schedule, a last run time and an instant *)

\* instants at least a minute after the epoch
Instants == MINUTE..MaxInstant

LastRuns == {NoTime} \cup (0..MaxInstant)

\* const due = isDue(schedule, lastRunAt, at)
CheckDue(schedule, lastRunAt, at) ==
  /\ call.pc \in {"idle", "isDue"}
  /\ call' = [pc |-> "isDue", schedule |-> schedule, lastRunAt |-> lastRunAt, at |-> at,
               result |-> isDue(schedule, lastRunAt, at)]
  /\ UNCHANGED <<now, store, runs, nextRun, sched, engine, cronLog, persistLog, lastWrite, calls, budget>>

NextCron == \E schedule \in Schedules, lastRunAt \in LastRuns, at \in Instants : CheckDue(schedule, lastRunAt, at)

SpecCron == InitScheduler /\ [][NextCron]_vars

----------------------------------------------------------------------------
(* generateFlowId applied directly to a name, and then to its own result *)

\* upper and lower case letters, a digit, and three characters outside [a-z0-9]
NameChars == {"A", "a", "0", "-", " ", "_"}

Names == UNION {[1..n -> NameChars] : n \in 0..MaxNameLen}

\* const id = generateFlowId(name)
DeriveId(name) ==
  /\ call.pc = "idle"
  /\ call' = [pc |-> "generateFlowId", name |-> name, id |-> generateFlowId(name), again |-> FALSE]
  /\ UNCHANGED <<now, store, runs, nextRun, sched, engine, cronLog, persistLog, lastWrite, calls, budget>>

\* generateFlowId(id), for an id that generateFlowId returned
DeriveAgain ==
  /\ call.pc = "generateFlowId"
  /\ ~call.again
  /\ call' = [pc |-> "generateFlowId", name |-> call.id, id |-> generateFlowId(call.id), again |-> TRUE]
  /\ UNCHANGED <<now, store, runs, nextRun, sched, engine, cronLog, persistLog, lastWrite, calls, budget>>

NextIds ==
  \/ call.pc = "idle" /\ \E name \in Names : DeriveId(name)
  \/ DeriveAgain

SpecIds == InitScheduler /\ [][NextIds]_vars

----------------------------------------------------------------------------
(* The manager's API alone: one flow id reached through two names, and another name *)

NameUpperA == <<"A">>

StoreConfigs ==
  [name : {NameA, NameUpperA, NameB}, schedule : {EveryMinute}, enabled : {TRUE},
   steps : {<<LogStep>>, <<FetchStep>>}]

NextStore ==
  \/ \E payload \in StoreConfigs : CreateFlow(payload)
  \/ \E payload \in StoreConfigs : UpdateFlow(IdA, payload)
  \/ DeleteFlow(IdA)
  \/ \E enabled \in BOOLEAN : SetEnabled(IdA, enabled)
  \/ ManualRun(IdA)
  \/ Settling

InitStore ==
  /\ InitBase
  /\ budget = [calls |-> MaxStoreCalls, runs |-> MaxRuns]
  /\ engine = NoInstances

SpecStore == InitStore /\ [][NextStore]_vars

(* Create and update requests whose payloads FlowConfigSchema may refuse *)

NoName == <<>>

WebhookNoPayload == [type |-> "notify", method |-> "webhook", url |-> "w"]
WebhookBlankPayload == [WebhookStep EXCEPT !.rawPayload = <<[lit |-> <<32>>]>>]
SlackNoMessage == [type |-> "notify", method |-> "slack", url |-> "w"]
SlackBlankMessage == [SlackStep EXCEPT !.message = <<>>]

SubmittedSteps ==
  {<<LogStep>>, <<FetchStep, TimedFetchStep>>, <<FetchStep, FetchStep>>, <<WebhookStep>>,
   <<WebhookNoPayload>>, <<WebhookBlankPayload>>, <<SlackStep>>, <<SlackNoMessage>>,
   <<SlackBlankMessage>>}

SubmittedConfigs ==
  [name : {NameA, NoName}, schedule : {EveryMinute}, enabled : {TRUE}, steps : SubmittedSteps]

SubmittedIds == {generateFlowId(NameA), generateFlowId(NoName)}

NextValidation ==
  \/ \E payload \in SubmittedConfigs : CreateFlow(payload)
  \/ \E id \in SubmittedIds, payload \in SubmittedConfigs : UpdateFlow(id, payload)

SpecValidation == InitScheduler /\ [][NextValidation]_vars

----------------------------------------------------------------------------
(* interpolateTemplate applied directly to a template text and a result map *)

\* "${" expr "}"
Hole(expr, path) == [text |-> <<36, 123>> \o expr \o <<125>>, path |-> path, expr |-> Trim(expr)]

\* ${p.body}, ${ p.status }, ${p.body.k}, ${q.x}
HoleBody == Hole(<<112, 46, 98, 111, 100, 121>>, <<"p", "body">>)
HoleStatus == Hole(<<32, 112, 46, 115, 116, 97, 116, 117, 115, 32>>, <<"p", "status">>)
HoleDeep == Hole(<<112, 46, 98, 111, 100, 121, 46, 107>>, <<"p", "body", "k">>)
HoleOther == Hole(<<113, 46, 120>>, <<"q", "x">>)

\* the pieces a template is put together from: a, $, {, } and the placeholders
Tokens ==
  {[text |-> <<97>>], [text |-> <<36>>], [text |-> <<123>>], [text |-> <<125>>],
   HoleBody, HoleStatus, HoleDeep, HoleOther}

TokenLists == UNION {[1..n -> Tokens] : n \in 0..MaxTokens}

TextOfTokens(tokens) == Concat([i \in DOMAIN tokens |-> tokens[i].text])

\* response bodies as JSON.parse returns them: 5, "v", null, {"k":"v"}
TemplateBodies == {Num(5), Str(<<118>>), Null, [t |-> "obj", keys |-> <<"k">>, k |-> Str(<<118>>)]}

\* context.results: empty, or holding the output of the fetch step p
TemplateResults ==
  {EmptyMap} \cup
  {Put(EmptyMap, "p", FetchOutput([status |-> 200, headers |-> EmptyMap, body |-> body])) :
     body \in TemplateBodies}

\* const output = interpolateTemplate(template, results)
Interpolate(tokens, results) ==
  /\ call.pc = "idle"
  /\ call' = [pc |-> "interpolateTemplate", tokens |-> tokens, template |-> TextOfTokens(tokens),
               results |-> results,
               output |-> interpolateTemplateText(TextOfTokens(tokens), results)]
  /\ UNCHANGED <<now, store, runs, nextRun, sched, engine, cronLog, persistLog, lastWrite, calls, budget>>

NextTemplate ==
  call.pc = "idle" /\ \E tokens \in TokenLists, results \in TemplateResults : Interpolate(tokens, results)

SpecTemplate == InitScheduler /\ [][NextTemplate]_vars

----------------------------------------------------------------------------
(* Properties *)

\* the record whose write completed in this step, when one did
PersistStep == Len(persistLog') = Len(persistLog) + 1

LastPersisted == persistLog'[Len(persistLog')]

HistoryOf(state, f) == IF Has(state.history, f) THEN state.history[f] ELSE <<>>

\* a run of tick k is suspended in a delay step
AwaitsDelay(s, rs, k) ==
  /\ s.ticks[k].pc = "await"
  /\ Has(rs, s.ticks[k].awaiting)
  /\ rs[s.ticks[k].awaiting].pc = "delay"

\* two persisted runs of one flow that executed at the same time: the later
\* written one started before the earlier written one finished
Overlapped(i, j) ==
  /\ i < j
  /\ persistLog[i].flowId = persistLog[j].flowId
  /\ persistLog[j].startedAt < persistLog[i].finishedAt

\* the write of the last entry of persistLog is the last store write
JustPersisted(j) ==
  /\ j = Len(persistLog)
  /\ lastWrite.kind = "persist"
  /\ lastWrite.id = persistLog[j].id

\* C1: at most one sweep of FlowScheduler is in progress at any time; a timer
\* firing that finds the busy flag set lists nothing, triggers no run and
\* leaves nothing behind but the timer's own bookkeeping.
C1_OneTickAtATime ==
  [][/\ Cardinality(DOMAIN sched'.ticks) <= 1
     /\ (sched.running /\ sched'.fired # sched.fired) =>
          /\ sched' = [sched EXCEPT !.timer = @ + SCHEDULER_INTERVAL,
                                    !.fired = @ + 1, !.skipped = @ + 1]
          /\ UNCHANGED <<store, runs, nextRun, cronLog>>]_vars

C1_Witness == sched.skipped > 0 /\ DOMAIN sched.ticks # {}

\* C2: every run started with trigger=cron by a scheduling entry point was
\* decided on a flow that the entry point saw enabled and due.
C2_CronOnlyWhenEnabledAndDue ==
  \A i \in DOMAIN cronLog : cronLog[i].enabled /\ cronLog[i].due

\* C3: no two cron-triggered runs of one flow are started less than one
\* polling interval apart.
C3_NoDuplicateCronRun ==
  \A i, j \in DOMAIN cronLog :
    (i < j /\ cronLog[i].flowId = cronLog[j].flowId)
      => cronLog[j].at - cronLog[i].at >= SCHEDULER_INTERVAL

\* C4: when a sweep ends, manager.run has been called for every flow of its
\* listing that was enabled and due, whatever happened to the other calls.
C4_SweepSurvivesFailures ==
  [][\A k \in DOMAIN sched.ticks :
       k \notin DOMAIN sched'.ticks =>
         sched.ticks[k].triggered = DueInTick(sched.ticks[k])]_vars

C4_Witness ==
  \E k \in DOMAIN sched.ticks :
    /\ sched.ticks[k].failed # {}
    /\ sched.ticks[k].pc = "await"

\* C5: after the run record of an existing flow is persisted, succeeded or
\* failed, it heads the flow's history and lastRunAt is its finishedAt.
C5_PersistedRecordIsHead ==
  [][(PersistStep /\ Has(store.flows, LastPersisted.flowId)) =>
       /\ Has(store'.flows, LastPersisted.flowId)
       /\ HistoryOf(store', LastPersisted.flowId) # <<>>
       /\ store'.history[LastPersisted.flowId][1].id = LastPersisted.id
       /\ store'.flows[LastPersisted.flowId].lastRunAt = LastPersisted.finishedAt]_vars

C5_Witness ==
  \E f \in DOMAIN store.flows :
    /\ Len(HistoryOf(store, f)) >= 2
    /\ store.history[f][1].status = "failure"
    /\ store.history[f][2].status = "success"
    /\ lastWrite.kind = "persist"
    /\ store.flows[f].lastRunAt = store.history[f][1].finishedAt

\* position of record id in the order of writes
WritePos(id) == CHOOSE n \in DOMAIN persistLog' : persistLog'[n].id = id

\* C6: a history never holds more than 50 records, holds them most recently
\* appended first, and an append to a full history drops exactly the oldest.
C6_HistoryCapped ==
  [][/\ \A f \in DOMAIN store'.history :
          /\ Len(store'.history[f]) <= HISTORY_LIMIT
          /\ \A n \in 1..(Len(store'.history[f]) - 1) :
               WritePos(store'.history[f][n].id) > WritePos(store'.history[f][n + 1].id)
     /\ (PersistStep /\ Len(HistoryOf(store, LastPersisted.flowId)) = HISTORY_LIMIT) =>
          /\ store'.history[LastPersisted.flowId][1].id = LastPersisted.id
          /\ Tail(store'.history[LastPersisted.flowId])
               = SubSeq(store.history[LastPersisted.flowId], 1, HISTORY_LIMIT - 1)]_vars

C6_Witness ==
  /\ Len(HistoryOf(store, IdA)) = HISTORY_LIMIT
  /\ Len(persistLog) > HISTORY_LIMIT

\* C7: when two runs of one flow overlap, the history holds both records once
\* both are persisted.
C7_OverlappingRunsBothInHistory ==
  \A i, j \in DOMAIN persistLog :
    (Overlapped(i, j) /\ JustPersisted(j)) =>
      {persistLog[i].id, persistLog[j].id}
        \subseteq {HistoryOf(store, persistLog[j].flowId)[n].id :
                     n \in DOMAIN HistoryOf(store, persistLog[j].flowId)}

\* C8: when two runs of one flow overlap, after both are persisted lastRunAt is
\* the finishedAt of the run whose write completed last.
C8_LastWriteWins ==
  \A i, j \in DOMAIN persistLog :
    (Overlapped(i, j) /\ JustPersisted(j) /\ Has(store.flows, persistLog[j].flowId)) =>
      store.flows[persistLog[j].flowId].lastRunAt = persistLog[j].finishedAt

C8_Witness ==
  \E i, j \in DOMAIN persistLog :
    /\ Overlapped(i, j)
    /\ JustPersisted(j)
    /\ Has(store.flows, persistLog[j].flowId)
    /\ persistLog[j].startedAt < persistLog[i].startedAt
    /\ persistLog[j].finishedAt > persistLog[i].finishedAt

\* C9: persisting the run record of a flow that is no longer stored does not
\* bring the flow back.
C9_DeletedFlowStaysDeleted ==
  [][(PersistStep /\ ~Has(store.flows, LastPersisted.flowId)) =>
       ~Has(store'.flows, LastPersisted.flowId)]_vars

\* C10: while a run triggered by a sweep is suspended in a delay step, no due
\* flow of that sweep is left waiting and no timer firing is skipped.
C10_DelayDoesNotBlockSweep ==
  [][/\ \A k \in DOMAIN sched'.ticks :
          AwaitsDelay(sched', runs', k) => Pending(sched'.ticks[k]) = {}
     /\ sched'.skipped > sched.skipped =>
          ~\E k \in DOMAIN sched.ticks : AwaitsDelay(sched, runs, k)]_vars

----------------------------------------------------------------------------
(* The step interpreter, observed on the direct invocation `call` *)

Invoked == call.pc # "idle"
Returned == call.pc = "returned"
CallSteps == call.flow.steps
CallOutcomes == call.stepResults

IsTest(step) == step.type \in {"condition", "logic"}

\* what results held when step k started: the outputs of the fetch steps before it
ResultsBefore(k) ==
  LET ids == {CallSteps[i].id : i \in {j \in 1..(k - 1) : CallSteps[j].type = "fetch"}}
  IN [id \in ids \cap DOMAIN call.results |-> call.results[id]]

\* the value the condition or logic step k evaluates to
TestValue(k) ==
  IF CallSteps[k].type = "condition"
  THEN evaluateRule(CallSteps[k], [results |-> ResultsBefore(k)])
  ELSE executeLogic(CallSteps[k], [results |-> ResultsBefore(k)])

HasError(outcome) == "error" \in DOMAIN outcome

\* step k was reached with every earlier step done without an error
ReachedCleanly(k) ==
  /\ k <= Len(CallOutcomes)
  /\ \A i \in 1..(k - 1) : ~HasError(CallOutcomes[i])

\* C11: when the k-th step is a condition or logic step that evaluates false and
\* every earlier step succeeded, the invocation returns success with exactly k
\* outcomes, the last one being the false outcome of that step; and no
\* invocation is ever found executing a step behind a test that was false.
C11_FalseTestStopsWithSuccess ==
  /\ Returned =>
       \A k \in DOMAIN CallSteps :
         (ReachedCleanly(k) /\ IsTest(CallSteps[k]) /\ ~TestValue(k)) =>
           /\ call.success
           /\ Len(CallOutcomes) = k
           /\ CallOutcomes[k].stepId = CallSteps[k].type
           /\ ~HasError(CallOutcomes[k])
           /\ CallOutcomes[k].output = Bool(FALSE)
  /\ call.pc \in {"fetch", "delay", "notify"} =>
       \A k \in 1..(call.idx - 1) : IsTest(CallSteps[k]) => TestValue(k)

\* a three-step flow whose second step, a condition on the status of the first
\* step's response, was false: two outcomes, success
C11_Witness ==
  /\ Returned
  /\ Len(CallSteps) = 3
  /\ CallSteps[1] = FetchStep /\ CallSteps[2] = ConditionStep
  /\ Len(CallOutcomes) = 2
  /\ CallOutcomes[2].output = Bool(FALSE)
  /\ call.success

\* the awaited call of step k settled with a failure: no response, or a
\* notify response outside 200..299
AwaitFailed(k) ==
  /\ call.got.step = k
  /\ \/ call.got.o.kind \in {"network-error", "abort"}
     \/ CallSteps[k].type = "notify" /\ call.got.o.kind = "response"
          /\ ~(call.got.o.status >= 200 /\ call.got.o.status <= 299)

\* step k throws before it awaits anything: a duration that is not
\* <integer><unit>, or a webhook payload that is not JSON once interpolated
ThrowsAtOnce(k) ==
  \/ CallSteps[k].type = "delay" /\ CallSteps[k].duration.unit \notin {"ms", "s", "m", "h"}
  \/ CallSteps[k].type = "notify" /\ CallSteps[k].method = "webhook"
       /\ \E i \in DOMAIN CallSteps[k].rawPayload :
            "expr" \in DOMAIN CallSteps[k].rawPayload[i]
              /\ getDeepValue(ResultsBefore(k), CallSteps[k].rawPayload[i].expr) = Undef

\* the log line "[<type>] Error: <message>"
IsErrorLine(line, type, message) ==
  /\ "tag" \in DOMAIN line
  /\ line.tag = "error"
  /\ line.type = type
  /\ line.message = message

\* the interpreter got as far as step k, and step k threw
Threw(k) ==
  /\ call.idx >= k
  /\ CallSteps[k] # Unreadable
  /\ \A i \in 1..(k - 1) : CallSteps[i] # Unreadable /\ (IsTest(CallSteps[i]) => TestValue(i))
  /\ AwaitFailed(k) \/ ThrowsAtOnce(k)

\* C12: when a step throws, the invocation returns at once with success=false,
\* the outcome of that step is the last one and carries the error message, an
\* error log line carries the same message, and no later step is executed.
C12_ThrowingStepFailsRun ==
  Invoked =>
    /\ \A k \in DOMAIN CallSteps :
         Threw(k) =>
           /\ Returned
           /\ ~call.success
           /\ call.idx = k
           /\ Len(CallOutcomes) = k
           /\ HasError(CallOutcomes[k])
           /\ \A i \in 1..(k - 1) : ~HasError(CallOutcomes[i])
           /\ \E i \in DOMAIN call.logs : IsErrorLine(call.logs[i], CallSteps[k].type, CallOutcomes[k].error)
    /\ ~Returned => \A i \in DOMAIN CallOutcomes : ~HasError(CallOutcomes[i])

\* a fetch answered, then the notify POST of the second step was refused, and
\* the third step never ran
C12_Witness ==
  /\ Returned
  /\ Len(CallSteps) = 3
  /\ CallSteps[1] = FetchStep /\ CallSteps[2] = WebhookStep
  /\ Threw(2)
  /\ call.got.o.kind = "network-error"
  /\ Len(CallOutcomes) = 2 /\ HasError(CallOutcomes[2])

\* fetch() of step k was aborted by the step's timeout
TimedOut(k) ==
  /\ CallSteps[k].type = "fetch"
  /\ call.got.step = k
  /\ call.got.o.kind = "abort"

\* C13: when the timeout of a fetch step elapses before a response arrives, the
\* invocation fails, the step has exactly one outcome, whose error is the
\* timeout error and not the error of another transport failure, and results has
\* no entry under the step's id.
C13_FetchTimeoutFailsRun ==
  Invoked =>
    \A k \in DOMAIN CallSteps :
      TimedOut(k) =>
        /\ CallSteps[k].timeout_ms > 0
        /\ now >= call.startedAt + TimerUnits(CallSteps[k].timeout_ms)
        /\ Returned
        /\ ~call.success
        /\ Cardinality({i \in DOMAIN CallOutcomes : CallOutcomes[i].stepId = CallSteps[k].id}) = 1
        /\ Len(CallOutcomes) = k
        /\ HasError(CallOutcomes[k])
        /\ CallOutcomes[k].error = [kind |-> "timeout", ms |-> CallSteps[k].timeout_ms]
        /\ CallOutcomes[k].error.kind # "network-error"
        /\ CallSteps[k].id \notin DOMAIN call.results

\* the second fetch of a flow timed out after the first one was answered
C13_Witness ==
  /\ Returned
  /\ Len(CallSteps) = 2
  /\ CallSteps[1] = FetchStep /\ CallSteps[2] = TimedFetchStep
  /\ TimedOut(2)
  /\ DOMAIN call.results = {FetchStep.id}
  /\ ~call.success

\* C14: an invocation that returns success with fewer outcomes than the flow
\* has steps stopped at a condition or logic step that evaluated false: its
\* last outcome is the false output of that step.
C14_OnlyFalseTestHaltsEarly ==
  (Returned /\ call.success /\ Len(CallOutcomes) < Len(CallSteps)) =>
    /\ Len(CallOutcomes) >= 1
    /\ IsTest(CallSteps[Len(CallOutcomes)])
    /\ ~TestValue(Len(CallOutcomes))
    /\ ~HasError(CallOutcomes[Len(CallOutcomes)])
    /\ CallOutcomes[Len(CallOutcomes)].output = Bool(FALSE)
    /\ CallOutcomes[Len(CallOutcomes)].stepId = CallSteps[Len(CallOutcomes)].type

\* a logic step whose two rules were false stopped a flow after its second step
C14_Witness ==
  /\ Returned
  /\ call.success
  /\ CallSteps = <<FetchStep, LogicStep, LogStep>>
  /\ Len(CallOutcomes) = 2
  /\ CallOutcomes[2].output = Bool(FALSE)

\* the fetch steps that completed without throwing
FetchesDone == {k \in DOMAIN CallOutcomes : CallSteps[k].type = "fetch" /\ ~HasError(CallOutcomes[k])}

\* C15: at every point of an invocation the keys of results are the ids of the
\* fetch steps that completed without throwing, each holding that step's
\* output; no other step adds, removes or changes an entry.
C15_OnlyFetchWritesResults ==
  (Invoked /\ call.thrown.kind = "none") =>
    /\ DOMAIN call.results = {CallSteps[k].id : k \in FetchesDone}
    /\ \A k \in FetchesDone : call.results[CallSteps[k].id] = CallOutcomes[k].output

\* a fetch, a delay and a notification all completed: one key
C15_Witness ==
  /\ Returned
  /\ call.success
  /\ CallSteps = <<FetchStep, DelayStep, SlackStep>>
  /\ Len(CallOutcomes) = 3
  /\ DOMAIN call.results = {FetchStep.id}

\* fetch() of step k was answered with a status outside 200..299
AnsweredNotOk(k) ==
  /\ call.got.step = k
  /\ call.got.o.kind = "response"
  /\ ~(call.got.o.status >= 200 /\ call.got.o.status <= 299)

\* C16: a fetch step answered with a non-2xx status does not fail: its
\* {status, headers, body} is stored under its id, its outcome has no error,
\* and the interpreter goes on to the next step.
C16_FetchNon2xxIsNotFailure ==
  (Invoked /\ call.thrown.kind = "none") =>
    \A k \in DOMAIN CallSteps :
      (CallSteps[k].type = "fetch" /\ AnsweredNotOk(k)) =>
        /\ Has(call.results, CallSteps[k].id)
        /\ call.results[CallSteps[k].id] =
             [t |-> "obj", status |-> Num(call.got.o.status),
              headers |-> call.got.o.headers, body |-> call.got.o.body]
        /\ Len(CallOutcomes) >= k
        /\ ~HasError(CallOutcomes[k])
        /\ CallOutcomes[k].output = call.results[CallSteps[k].id]
        /\ call.idx > k
        /\ k < Len(CallSteps) =>
             \/ Len(CallOutcomes) > k
             \/ call.pc \in {"fetch", "delay", "notify"} /\ call.idx = k + 1
        /\ k = Len(CallSteps) => Returned /\ call.success

\* a 404 answer, and the log step behind the fetch ran
C16_Witness ==
  /\ Returned
  /\ call.success
  /\ CallSteps = <<FetchStep, LogStep>>
  /\ AnsweredNotOk(1)
  /\ Len(CallOutcomes) = 2

\* C17: a notify step whose POST is answered with a non-2xx status fails: its
\* outcome carries the error, no later step runs, the invocation returns failure.
C17_NotifyNon2xxFailsRun ==
  Invoked =>
    \A k \in DOMAIN CallSteps :
      (CallSteps[k].type = "notify" /\ AnsweredNotOk(k)) =>
        /\ Returned
        /\ ~call.success
        /\ Len(CallOutcomes) = k
        /\ HasError(CallOutcomes[k])
        /\ CallOutcomes[k].error = [kind |-> "notify-failed", status |-> call.got.o.status]

\* the POST of a slack notification was answered 500 and the log step behind it never ran
C17_Witness ==
  /\ Returned
  /\ ~call.success
  /\ CallSteps = <<SlackStep, LogStep>>
  /\ AnsweredNotOk(1)
  /\ Len(CallOutcomes) = 1

\* the interpreter reached a steps entry it cannot read, where executeSteps throws
InterpreterThrew == \E k \in DOMAIN CallSteps : CallSteps[k] = Unreadable /\ call.idx = k

\* C18: runFlowNow never ends in an exception of the step interpreter: it is
\* suspended in an awaited call or it returned a record; and when executeSteps
\* threw, the record has status failure and one outcome, with stepId
\* "execution" and the error message, which is also the last log line.
C18_RunFlowNowAlwaysReturnsRecord ==
  Invoked =>
    /\ call.pc \in {"fetch", "delay", "notify", "returned"}
    /\ Returned => RunRecordOf(call, now).status \in {"success", "failure"}
    /\ InterpreterThrew =>
         /\ Returned
         /\ RunRecordOf(call, now).status = "failure"
         /\ Len(RunRecordOf(call, now).steps) = 1
         /\ RunRecordOf(call, now).steps[1].stepId = "execution"
         /\ HasError(RunRecordOf(call, now).steps[1])
         /\ RunRecordOf(call, now).steps[1].error = [kind |-> "type-error"]
         /\ call.logs[Len(call.logs)].message = RunRecordOf(call, now).steps[1].error

\* executeSteps threw at the second entry, after a log step had run
C18_Witness ==
  /\ Returned
  /\ CallSteps = <<LogStep, Unreadable>>
  /\ InterpreterThrew
  /\ Len(CallOutcomes) = 1
  /\ Len(call.logs) = 3

----------------------------------------------------------------------------
(* Failed runs and the stored history *)

RunIds == 1..(MaxRuns + 1)

\* runFlowNow invocation id returned in this step
FinishedNow(id) ==
  /\ id \notin DOMAIN runs'
  /\ id \in DOMAIN runs \/ (id >= nextRun /\ id < nextRun')

\* the records of run id in the stored history st of their flow
RecordsIn(st, id) ==
  UNION {{st[f][i] : i \in {j \in DOMAIN st[f] : st[f][j].id = id /\ st[f][j].flowId = f}} : f \in DOMAIN st}

\* the records of run id that writeRunRecord has still to post
QueuedIn(writes, id) == {rec \in writes : rec.id = id}

\* the record keeps the error of the step that failed, on the last outcome and in a log line
KeepsError(rec) ==
  /\ rec.steps # <<>>
  /\ HasError(rec.steps[Len(rec.steps)])
  /\ \A i \in 1..(Len(rec.steps) - 1) : ~HasError(rec.steps[i])
  /\ \E i \in DOMAIN rec.logs :
       "message" \in DOMAIN rec.logs[i] /\ rec.logs[i].message = rec.steps[Len(rec.steps)].error

Failed(rec) == rec.status = "failure"

\* run id failed and its record waits in the workflow for its write
FailureQueued(id) == \E rec \in QueuedIn(engine.writes, id) : Failed(rec)

\* run id failed and its record, error included, is in the stored history
FailureStored(id) == \E rec \in RecordsIn(store.history, id) : Failed(rec) /\ KeepsError(rec)

\* C19: a run that finishes, whoever triggered it, has its record in the stored
\* history of its flow at once (manager) or handed to writeRunRecord (workflow);
\* every failure record, stored or waiting, keeps the failing step's error on
\* that step's outcome and in a log line; and every failure record that waits
\* is eventually stored.
C19_FailedRunIsRecorded ==
  /\ [][\A id \in RunIds :
          /\ FinishedNow(id) =>
               RecordsIn(store'.history, id) \cup QueuedIn(engine'.writes, id) # {}
          /\ \A rec \in RecordsIn(store'.history, id) \cup QueuedIn(engine'.writes, id) :
               Failed(rec) => KeepsError(rec)]_vars
  /\ \A id \in RunIds : FailureQueued(id) ~> FailureStored(id)

\* a failure of a run started by hand and a failure of a run started by the
\* workflow are both in the stored history
C19_Witness ==
  \E i, j \in RunIds :
    /\ \E rec \in RecordsIn(store.history, i) : Failed(rec) /\ rec.trigger = "manual"
    /\ \E rec \in RecordsIn(store.history, j) : Failed(rec) /\ rec.trigger = "cron" /\ Len(rec.steps) = 2

----------------------------------------------------------------------------
(* The cron evaluator, observed on the direct application `call` *)

\* the schedule has an occurrence at instant x
Occurs(schedule, x) == CronParses(schedule) /\ x % CronPeriod(schedule) = 0

C21_DueIffOccurrenceSinceLastRun ==
  (call.pc = "isDue" /\ CronParses(call.schedule) /\ call.lastRunAt # NoTime)
    => (call.result <=>
          \E x \in (call.lastRunAt + 1)..call.at : Occurs(call.schedule, x))

C21_Witness ==
  /\ call.pc = "isDue"
  /\ call.schedule = EveryTwoMinutes
  /\ call.lastRunAt = 2 * MINUTE
  /\ call.at = 4 * MINUTE
  /\ call.result

\* C22: isDue answers false for a schedule that does not parse, whatever the
\* last run time and the instant, and no scheduling entry point starts a
\* trigger=cron run of a stored flow whose schedule does not parse.
C22_MalformedScheduleNeverTriggered ==
  /\ (call.pc = "isDue" /\ ~CronParses(call.schedule)) => ~call.result
  /\ \A i \in DOMAIN cronLog :
       Has(store.flows, cronLog[i].flowId)
         => CronParses(store.flows[cronLog[i].flowId].schedule)

\* an id made of lowercase letters and digits, with single dashes between them only
WellFormedId(id) ==
  /\ \A i \in DOMAIN id : id[i] \in {"a", "b", "0", "1", "-"}
  /\ id # <<>> => (id[1] # "-" /\ id[Len(id)] # "-")
  /\ \A i \in 1..(Len(id) - 1) : ~(id[i] = "-" /\ id[i + 1] = "-")

\* C23: the id generateFlowId derives from a name holds only lowercase
\* letters, digits and single dashes, none of them first or last, and
\* deriving an id from an id returns it unchanged.
C23_FlowIdIsNormalForm ==
  call.pc = "generateFlowId" =>
    /\ WellFormedId(call.id)
    /\ call.again => call.id = call.name

C23_Witness ==
  /\ call.pc = "generateFlowId"
  /\ call.again
  /\ call.name = <<"a", "-", "0">>
  /\ call.id = call.name

\* C24: a POST /flows whose name normalizes to the id of a stored flow
\* changes neither the stored flows nor the histories.
C24_DuplicateCreateChangesNothing ==
  [][\A payload \in StoreConfigs :
       (Has(store.flows, generateFlowId(payload.name)) /\ CreateFlow(payload))
         => UNCHANGED store]_vars

\* two requests were made, the first one created the flow, and the second one
\* wrote nothing: with the valid payloads of StoreConfigs it was answered 409
C24_Witness ==
  /\ calls = 2
  /\ nextRun = 1
  /\ lastWrite.kind = "create"
  /\ DOMAIN store.flows = {IdA}

\* the run records of flow id that the state holds, under whatever key
RecordsOf(state, id) ==
  {record \in UNION {Range(state.history[f]) : f \in DOMAIN state.history} : record.flowId = id}

\* C25: when DELETE /flows/:id has completed, the store holds neither the
\* flow nor any run record with that flowId.
C25_DeleteRemovesFlowAndHistory ==
  [][DeleteFlow(IdA) => (~Has(store'.flows, IdA) /\ RecordsOf(store', IdA) = {})]_vars

\* the flow was run, its record was stored, and then the flow was deleted
C25_Witness ==
  /\ lastWrite.kind = "delete"
  /\ nextRun > 1
  /\ runs = EmptyMap
  /\ store = EmptyState

\* the step has the field and its text holds more than white space
HasText(step, field) ==
  /\ field \in DOMAIN step
  /\ \E i \in DOMAIN step[field] :
       \/ "expr" \in DOMAIN step[field][i]
       \/ "lit" \in DOMAIN step[field][i] /\ \E c \in Range(step[field][i].lit) : c # 32

\* the validation invariant of a flow definition
MeetsValidation(flow) ==
  LET fetches == {i \in DOMAIN flow.steps : flow.steps[i].type = "fetch"}
      notifies == {i \in DOMAIN flow.steps : flow.steps[i].type = "notify"}
  IN /\ Cardinality({flow.steps[i].id : i \in fetches}) = Cardinality(fetches)
     /\ \A i \in notifies :
          HasText(flow.steps[i], IF flow.steps[i].method = "webhook" THEN "rawPayload" ELSE "message")

\* C26: every stored flow has fetch steps of pairwise distinct ids, webhook
\* notify steps with a non-empty rawPayload and other notify steps with a
\* non-empty message; a create or an update whose payload breaks one of these
\* leaves the store as it was.
C26_StoredFlowsAreValid ==
  [][/\ \A f \in DOMAIN store'.flows : MeetsValidation(store'.flows[f])
     /\ \A payload \in SubmittedConfigs :
          (/\ ~MeetsValidation(payload)
           /\ \/ CreateFlow(payload)
              \/ \E id \in SubmittedIds : UpdateFlow(id, payload))
            => UNCHANGED store]_vars

\* the one request made so far was refused
C26_Witness ==
  /\ calls = 1
  /\ lastWrite.kind = "none"
  /\ store = EmptyState

\* C30: every stored flow has a non-empty name.
C30_StoredNamesAreNonEmpty ==
  \A f \in DOMAIN store.flows : store.flows[f].name # <<>>

\* every run record the state holds
AllRecords(state) == UNION {Range(state.history[f]) : f \in DOMAIN state.history}

\* C27: a run record that the store holds before and after a step has the
\* same fields after it, the snapshot of its flow included, whatever the step
\* was (an update, a toggle, another run of the flow).
C27_StoredRecordsNeverChange ==
  [][\A old \in AllRecords(store), new \in AllRecords(store') :
       old.id = new.id => old = new]_vars

\* the flow was run, updated to other steps and run again: both records are
\* stored, each with the definition its run used
C27_Witness ==
  /\ Has(store.history, IdA)
  /\ Len(store.history[IdA]) = 2
  /\ store.history[IdA][1].flow.steps # store.history[IdA][2].flow.steps
  /\ store.history[IdA][2].flow.steps # store.flows[IdA].steps

Interpolated == call.pc = "interpolateTemplate"

IsHole(token) == "path" \in DOMAIN token

\* no "$" piece stands right before a "{" piece, so the placeholders of the
\* template are exactly its placeholder pieces
Unambiguous(tokens) ==
  \A i \in 1..(Len(tokens) - 1) : ~(tokens[i].text = <<36>> /\ tokens[i + 1].text = <<123>>)

\* the rendering of the pieces before and after piece i, each taken alone
RenderedBefore(i) ==
  interpolateTemplateText(TextOfTokens(SubSeq(call.tokens, 1, i - 1)), call.results)

RenderedAfter(i) ==
  interpolateTemplateText(TextOfTokens(SubSeq(call.tokens, i + 1, Len(call.tokens))), call.results)

\* scalars by their string form, structured values as compact JSON
Shown(value) == IF value.t = "obj" THEN JsonStringify(value) ELSE String(value)

\* C28: in the output, every placeholder whose path leads to a value stands
\* replaced by that value's rendering (the string form of a scalar, the
\* compact JSON of an object), and every other piece of text stands as it was.
C28_ResolvedPlaceholdersAreRendered ==
  (Interpolated /\ Unambiguous(call.tokens)) =>
    \A i \in DOMAIN call.tokens :
      LET token == call.tokens[i]
      IN IF IsHole(token)
         THEN getDeepValue(call.results, token.path) # Undef
                => call.output = RenderedBefore(i)
                                   \o Shown(getDeepValue(call.results, token.path))
                                   \o RenderedAfter(i)
         ELSE call.output = RenderedBefore(i) \o token.text \o RenderedAfter(i)

\* C29: a placeholder with a missing path segment or a missing root stands
\* replaced by "[missing <expr>]", expr being the trimmed path expression,
\* and the pieces around it are rendered as they are without it.
C29_UnresolvedPlaceholderIsMarked ==
  (Interpolated /\ Unambiguous(call.tokens)) =>
    \A i \in DOMAIN call.tokens :
      LET token == call.tokens[i]
      IN (IsHole(token) /\ getDeepValue(call.results, token.path) = Undef)
           => call.output = RenderedBefore(i) \o StrMissing \o token.expr \o <<93>>
                              \o RenderedAfter(i)

\* "a[missing q.x]200": a missing root between a literal and a resolved placeholder
C29_Witness ==
  /\ Interpolated
  /\ call.tokens = <<[text |-> <<97>>], HoleOther, HoleStatus>>
  /\ Has(call.results, "p")
  /\ call.output = <<97>> \o StrMissing \o <<113, 46, 120, 93, 50, 48, 48>>

IsPrefix(a, b) == Len(a) <= Len(b) /\ a = SubSeq(b, 1, Len(a))

\* the outcomes of the invocation c match the first steps of its flow, one
\* for one, and the step it is suspended in is the one right behind them
InListOrder(c) ==
  /\ Len(c.stepResults) <= Len(c.flow.steps)
  /\ \A i \in DOMAIN c.stepResults :
       /\ c.stepResults[i].stepId = StepIdOf(c.flow.steps[i])
       /\ i > 1 => c.stepResults[i - 1].timestamp <= c.stepResults[i].timestamp
  /\ c.pc \in {"fetch", "delay", "notify"} =>
       /\ Len(c.stepResults) = c.idx - 1
       /\ c.flow.steps[c.idx].type = c.pc

\* C32: for a flow whose steps the schema accepts, the step outcomes of an
\* invocation match a prefix of the step list position by position, the step
\* being awaited is the one right behind the outcomes produced so far, and
\* going on only appends outcomes to those already produced.
C32_StepsRunOneByOneInOrder ==
  [][(call'.pc # "idle" /\ \A k \in DOMAIN call'.flow.steps : call'.flow.steps[k] # Unreadable)
       => /\ InListOrder(call')
          /\ call.pc # "idle" => IsPrefix(call.stepResults, call'.stepResults)]_vars

\* a fetch, a delay and a log step were executed, the last one after the first
C32_Witness ==
  /\ Returned
  /\ CallSteps = <<FetchStep, DelayStep, LogStep>>
  /\ Len(CallOutcomes) = 3
  /\ CallOutcomes[1].timestamp < CallOutcomes[3].timestamp

\* C33: every stored flow is stored under its id, and its id is
\* generateFlowId of the name it has now.
C33_IdIsDerivedFromName ==
  \A f \in DOMAIN store.flows :
    store.flows[f].id = f /\ generateFlowId(store.flows[f].name) = f

\* C34: the step that persists a run leaves every store write made before it
\* in effect: it changes nothing but the history and the lastRunAt of the
\* run's own flow.
C34_PersistKeepsOtherWrites ==
  [][PersistStep =>
       LET f == LastPersisted.flowId
       IN /\ DOMAIN store'.flows = DOMAIN store.flows
          /\ \A g \in DOMAIN store.flows :
               IF g = f
               THEN [store'.flows[g] EXCEPT !.lastRunAt = NoTime]
                      = [store.flows[g] EXCEPT !.lastRunAt = NoTime]
               ELSE store'.flows[g] = store.flows[g]
          /\ DOMAIN store'.history \subseteq DOMAIN store.history \cup {f}
          /\ \A g \in DOMAIN store.history \ {f} :
               Has(store'.history, g) /\ store'.history[g] = store.history[g]]_vars

\* C35: every key of the history map is the id of a stored flow, also after
\* a run record arrived for a flow that was deleted.
C35_HistoryOnlyForStoredFlows == DOMAIN store.history \subseteq DOMAIN store.flows

\* C36: while a flow stays stored, no step makes its lastRunAt smaller.
C36_LastRunAtNeverMovesBack ==
  [][\A f \in DOMAIN store.flows \cap DOMAIN store'.flows :
       store'.flows[f].lastRunAt >= store.flows[f].lastRunAt]_vars

\* sweep k, which listed the store at instant t, found flow f enabled and due
\* and called manager.run for it
EvaluatedDue(k, f, t) ==
  /\ Has(sched.ticks, k)
  /\ sched.ticks[k].at = t
  /\ f \in sched.ticks[k].triggered

\* the store holds a cron record of f not older than t, and f's lastRunAt is
\* not older than t
CronRunStored(f, t) ==
  /\ \E n \in DOMAIN HistoryOf(store, f) :
       HistoryOf(store, f)[n].trigger = "cron" /\ HistoryOf(store, f)[n].startedAt >= t
  /\ Has(store.flows, f)
  /\ store.flows[f].lastRunAt >= t

\* a sweep that listed the store at instant t has flow f before it in its for
\* loop, and shouldRun accepts f: enabled, scheduled and due
FoundDue(f, t) ==
  \E k \in DOMAIN sched.ticks : sched.ticks[k].at = t /\ f \in Pending(sched.ticks[k])

\* C37 as stated: a flow that a sweep of FlowScheduler finds enabled and due
\* later has a cron record of that sweep in its history and a lastRunAt that
\* the run advanced.
C37_DueFlowIsRunAndRecorded ==
  \A f \in FlowIds, t \in SCHEDULER_INTERVAL..MaxTime : FoundDue(f, t) ~> CronRunStored(f, t)

\* C37, amended: a flow that a sweep of FlowScheduler finds enabled and due
\* later has the cron record and the advanced lastRunAt, or is no longer stored.
C37_DueFlowIsRunUnlessDeleted ==
  \A f \in FlowIds, t \in SCHEDULER_INTERVAL..MaxTime :
    FoundDue(f, t) ~> (CronRunStored(f, t) \/ ~Has(store.flows, f))

\* a sweep met a deleted flow, went on, and the run of the other flow is stored
C37_Witness ==
  /\ EvaluatedDue(1, IdB, 1)
  /\ sched.ticks[1].failed = {IdA}
  /\ CronRunStored(IdB, 1)

CarriesError(outcome) == "error" \in DOMAIN outcome

\* C38: in the record runFlowNow returns, status is failure exactly when the
\* last step outcome carries an error, no outcome but the last carries one,
\* and the first log line is the system line of the trigger.
C38_RecordIsWellFormed ==
  Returned =>
    LET record == RunRecordOf(call, now)
        last == Len(record.steps)
    IN /\ (record.status = "failure") <=> (last > 0 /\ CarriesError(record.steps[last]))
       /\ \A i \in DOMAIN record.steps : CarriesError(record.steps[i]) => i = last
       /\ Len(record.logs) > 0
       /\ record.logs[1] = [tag |-> "system", trigger |-> record.trigger, at |-> record.startedAt]

\* a failed run whose third step threw after two steps that went through
C38_Witness ==
  /\ Returned
  /\ ~call.success
  /\ Len(CallOutcomes) = 3
  /\ CarriesError(CallOutcomes[3])
  /\ ~CarriesError(CallOutcomes[1])
  /\ Len(call.logs) > 2

\* the step leaves id, createdAt and lastRunAt of flow id, every other flow
\* and the whole history as they were
KeepsIdentityAndRuns(id) ==
  /\ DOMAIN store'.flows = DOMAIN store.flows
  /\ store'.flows[id].id = store.flows[id].id
  /\ store'.flows[id].createdAt = store.flows[id].createdAt
  /\ store'.flows[id].lastRunAt = store.flows[id].lastRunAt
  /\ \A g \in DOMAIN store.flows \ {id} : store'.flows[g] = store.flows[g]
  /\ store'.history = store.history

\* C39: PUT /flows/:id and PATCH /flows/:id/enabled leave the flow's id,
\* createdAt, lastRunAt and history unchanged and change no other flow; the
\* toggle also leaves name, schedule and steps unchanged.
C39_UpdateAndToggleKeepTheRest ==
  [][/\ (\E payload \in StoreConfigs : UpdateFlow(IdA, payload)) => KeepsIdentityAndRuns(IdA)
     /\ (\E enabled \in BOOLEAN : SetEnabled(IdA, enabled)) =>
          /\ KeepsIdentityAndRuns(IdA)
          /\ store'.flows[IdA].name = store.flows[IdA].name
          /\ store'.flows[IdA].schedule = store.flows[IdA].schedule
          /\ store'.flows[IdA].steps = store.flows[IdA].steps]_vars

\* flow a, which has run and has a history, was renamed while flow b is stored
C39_Witness ==
  /\ lastWrite = [kind |-> "update", flowId |-> IdA, id |-> 0]
  /\ Has(store.flows, IdA)
  /\ store.flows[IdA].lastRunAt # NoTime
  /\ HistoryOf(store, IdA) # <<>>
  /\ Has(store.flows, IdB)

====
